---- MODULE Spec2Model ----
(***************************************************************************)
(* Quant_System: the night / morning jobs (src/src/jobs), the pre-trade    *)
(* gates (src/src/bridge/gates.py, src/scripts/safe_run.py), the atomic    *)
(* order export (src/src/bridge/orders.py) and the terminal-side executor  *)
(* (src/ptrade/PTrade_Dumb_Executor.py), as one state machine.             *)
(*                                                                         *)
(* Scores are integers in units of 1/200; probabilities are percentages.   *)
(***************************************************************************)
EXTENDS Integers, Sequences, FiniteSets, TLC

\* ------------------------------------------------------------------ bounds
MaxRuns == 2        \* job runs (run ids) in one behaviour
MaxFaults == 1      \* storage exceptions and kills of the job in one behaviour
MaxRestarts == 1    \* terminal restarts in one behaviour
MaxTicks == 3       \* terminal ticks (handle_data calls) in one behaviour

\* ------------------------------------------------------- input vocabularies
Codes == {"A", "B"}
Dates == {5, 6}                 \* day numbers; 5 is a Friday, 6 a Saturday
NoFile == [src |-> -1, lines |-> <<>>, batch |-> <<>>]   \* no file at the path
Null == "NULL"
Header == "HEADER"

Weekday(d) == (d - 1) % 7       \* datetime.weekday(): Monday = 0

\* ------------------------------------------------------- generic helpers
Min(a, b) == IF a < b THEN a ELSE b
Max(a, b) == IF a > b THEN a ELSE b
Head_n(s, n) == SubSeq(s, 1, Min(n, Len(s)))

\* All orderings of the finite set S that are ascending in column col
\* (SQL ORDER BY: rows with equal keys come in an unspecified order).
OrderedBy(S, col) ==
  {s \in [1..Cardinality(S) -> S] :
      /\ \A i, j \in DOMAIN s : i # j => s[i] # s[j]
      /\ \A i, j \in DOMAIN s : i < j => s[i][col] <= s[j][col]}

\* DataFrame.sort_values(col, ascending=False): descending, equal keys keep
\* their first-seen order.
SortDesc(s, col) ==
  LET pos(i) == 1 + Cardinality({j \in DOMAIN s :
                     \/ s[j][col] > s[i][col]
                     \/ s[j][col] = s[i][col] /\ j < i})
  IN  [p \in DOMAIN s |-> s[CHOOSE i \in DOMAIN s : pos(i) = p]]

\* ------------------------------------------------------------ configuration
\* config.yaml as the jobs read it.  config_hash = stable_hash_dict(cfg) is
\* modelled by the configuration record itself.
strength_gate_min_final_score == 30
rerank_weight_alpha == 70        \* 0.35 in units of 1/200
rerank_weight_risk == 1          \* 0.50 per unit probability = 1 per percent
rerank_weight_sev == 30          \* 0.15 in units of 1/200

\* The keys that vary: fat_finger.max_lines, model.enabled, scoring.top_m,
\* scoring.top_n, model.max_items.
Configs == [max_lines : {1, 2}, model_enabled : BOOLEAN,
            top_m : {2}, top_n : {2}, max_items : {1}]

\* The bars file: missing, or rows for a set of dates.  Every date present
\* carries the same instruments; score is the rule final_score after regime
\* and damper, vol the vol_proxy column (percent).
BarTables ==
  { [score |-> [c \in Codes |-> IF c = "A" THEN 40 ELSE 20],
     vol   |-> [c \in Codes |-> IF c = "A" THEN 2 ELSE 4]],
    [score |-> [c \in Codes |-> 20],
     vol   |-> [c \in Codes |-> 0]] }
EmptyTable == [score |-> [c \in Codes |-> 0], vol |-> [c \in Codes |-> 0]]
BarsFiles ==
  [exists : {FALSE}, dates : {{}}, tab : {EmptyTable}]
  \cup [exists : {TRUE}, dates : {{5}}, tab : BarTables]

\* First-seen order of the instruments in the bars file.
BarsOrder == <<"A", "B">>

VARIABLES
  cfg,          \* content of config.yaml
  bars,         \* content of the bars file
  stopFile,     \* paths.stop_file exists
  tmpCsv,       \* outbox/orders.csv.tmp
  ordersCsv,    \* outbox/orders.csv
  processed,    \* outbox/orders_processed_{d}_{run_id}.csv markers
  reconFile,    \* data/manual/reconcile_status.json
  calCache,     \* persisted trade calendar cache
  execLog,      \* table execution_log, keyed by run_id
  phase,        \* system_state['phase']
  picksDaily,   \* table picks_daily
  modelScores,  \* table model_scores_daily
  ordersDaily,  \* table orders_daily
  nextRun,      \* next fresh run id
  faults,       \* storage exceptions raised so far
  pc,           \* position of the core process
  loc,          \* locals of the running job
  inv,          \* the current / last command-line invocation
  tpc,          \* position of the terminal inside handle_data
  tloc,         \* locals of handle_data
  submitted,    \* calls of order_func so far
  heartbeat,    \* number of heartbeat writes
  ticks,        \* handle_data calls so far
  restarts,     \* terminal restarts so far
  today,        \* the terminal's wall-clock date
  dual,         \* a call of DualHeadModelEngine.score (engine/dual_head_model.py)
  compose,      \* a candidate table on its way through filters and compose_scores
  recon,        \* a call of asset_check (engine/gates.py)
  book,         \* a call of PortfolioManager.generate_orders (engine/portfolio.py)
  cal,          \* TradingCalendar instances over one cache file (core/trading_calendar.py)
  finger        \* a call of fat_finger_check (engine/gates.py) on a generated batch

fileVars == <<stopFile, tmpCsv, ordersCsv, processed>>
gateVars == <<reconFile, calCache>>
dbVars == <<execLog, phase, picksDaily, modelScores, ordersDaily>>
coreVars == <<nextRun, faults, pc, loc, inv>>
termVars == <<tpc, tloc, submitted, heartbeat, ticks, restarts, today>>
\* The functions of src/engine that no job calls work on state of their own.
engineVars == <<dual, compose, recon, book, cal, finger>>
inputVars == <<cfg, bars, engineVars>>
vars == <<inputVars, fileVars, gateVars, dbVars, coreVars, termVars>>

NoCfg == [max_lines |-> 0, model_enabled |-> FALSE,
          top_m |-> 0, top_n |-> 0, max_items |-> 0]
IdleLoc == [job |-> Null, run |-> 0, date |-> 0, cfg |-> NoCfg, err |-> Null,
            picks |-> <<>>, out |-> <<>>, finals |-> FALSE, orders |-> <<>>,
            stop_seen |-> Null, hist |-> <<>>, before |-> [picks |-> {}, model |-> {}]]
\* Date strings: "YYYY-MM-DD" (iso), "YYYYMMDD" (compact), "" (blank) or an
\* absent JSON field (missing).
DateStrs == [day : Dates, fmt : {"iso", "compact"}]
Blank == [day |-> 0, fmt |-> "blank"]
Missing == [day |-> 0, fmt |-> "missing"]
ReconAbsent == [kind |-> "absent", td |-> Missing, ok |-> "missing"]
NoInv == [entry |-> Null, job |-> Null, date |-> 0, launched |-> FALSE,
          code |-> -1, reason |-> Null]
NoMarker == [d |-> 0, run_id |-> Null]
IdleTerm == [orders |-> <<>>, src |-> 0, idx |-> 0, marker |-> NoMarker]
\* No call of an engine function in progress.
Unused == [pc |-> "unused"]
EngineIdle ==
  dual = Unused /\ compose = Unused /\ recon = Unused /\ book = Unused /\ cal = Unused
  /\ finger = Unused

\* ------------------------------------------------------------------- files
\* A file in the outbox: the lines on disk, and as history the run whose
\* export wrote it and the full content that export was writing.
File(run, lines, batch) == [src |-> run, lines |-> lines, batch |-> batch]

\* DataFrame.to_csv(tmp, index=False): header line, then one line per order.
Content(orders) == <<Header>> \o orders

\* ---------------------------------------------------------------- storage
\* upsert_df: INSERT OR REPLACE row by row under the table's PRIMARY KEY.
SameKey(r, q, pk) == \A f \in pk : r[f] = q[f]
\* A plain INSERT: rows are added, none replaced.
insert_df(table, rows, pk) == table \cup rows

upsert_df(table, rows, pk) ==
  {q \in table : \A r \in rows : ~SameKey(r, q, pk)} \cup rows

\* now_cn() inside a run: runs are sequential and the clock only moves
\* forward, so the reading is modelled by the run's ordinal.
now_cn(run) == run

PickKey == {"trade_date", "ts_code", "config_hash"}
OrderKey == {"trade_date", "ts_code", "side", "config_hash"}

\* The rows of a table for one trade date and configuration.
Rows(table, d, h) == {r \in table : r.trade_date = d /\ r.config_hash = h}

Raise(e) ==
  /\ pc' = "handler"
  /\ loc' = [loc EXCEPT !.err = e]

\* --------------------------------------------------------- job entry point
\* run_night_job / run_morning_job up to the try: fresh run id, phase,
\* execution_log row RUNNING.
StartJob ==
  /\ pc = "start"
  /\ LET run == nextRun IN
     /\ nextRun' = nextRun + 1
     /\ loc' = [loc EXCEPT !.run = run, !.cfg = cfg, !.hist = <<"RUNNING">>,
                           !.before = [picks |-> Rows(picksDaily, loc.date, cfg),
                                       model |-> Rows(modelScores, loc.date, cfg)]]
     /\ phase' = IF loc.job = "NIGHT" THEN "NIGHT_JOB" ELSE "MORNING_JOB"
     /\ execLog' = execLog @@
          (run :> [job |-> loc.job, trade_date |-> loc.date,
                   status |-> "RUNNING", error_msg |-> Null])
     /\ pc' = IF loc.job = "NIGHT" THEN "n_bars" ELSE "m_picks"
  /\ UNCHANGED <<inputVars, fileVars, gateVars, picksDaily, modelScores,
                 ordersDaily, faults, inv, termVars>>

\* --------------------------------------------------------------- night job
\* rank_scores over the universe of the date, then head(top_m).
rank_scores(tab) ==
  LET rows == [i \in DOMAIN BarsOrder |->
                 [ts_code |-> BarsOrder[i],
                  final_score |-> tab.score[BarsOrder[i]],
                  vol_proxy |-> tab.vol[BarsOrder[i]]]]
      sorted == SortDesc(rows, "final_score")
  IN  [i \in DOMAIN sorted |->
         [ts_code |-> sorted[i].ts_code, final_score |-> sorted[i].final_score,
          vol_proxy |-> sorted[i].vol_proxy, rank |-> i]]

\* Lines 78-151: read bars, select the date, rule pipeline, top_m picks.
NightBars ==
  /\ pc = "n_bars"
  /\ IF ~bars.exists THEN Raise("FileNotFoundError")
     ELSE IF loc.date \notin bars.dates THEN Raise("No bars found")
     ELSE /\ loc' = [loc EXCEPT !.picks = Head_n(rank_scores(bars.tab), loc.cfg.top_m)]
          /\ pc' = "n_score"
  /\ UNCHANGED <<inputVars, fileVars, gateVars, dbVars, nextRun,
                 faults, inv, termVars>>

\* What one oracle call can come back with.
OracleErrors == {"timeout", "http_error", "bad_json", "bad_value", "null_value"}
OracleOutcomes ==
  [kind : OracleErrors, alpha : {0}, risk_prob : {0}, risk_sev : {0}]
  \cup [kind : {"ok"}, alpha : {-1}, risk_prob : {50}, risk_sev : {3}]

_clamp(x, lo, hi) == Max(lo, Min(hi, x))

RECURSIVE SumVol(_)
SumVol(s) == IF s = <<>> THEN 0 ELSE Head(s).vol_proxy + SumVol(Tail(s))

\* Placeholder columns of DualHeadModelEngine.score (lines 236-245).
Placeholders(picks) ==
  LET rp == IF picks = <<>> THEN 0
            ELSE _clamp(SumVol(picks) \div Len(picks), 0, 100)
  IN [i \in DOMAIN picks |->
        [ts_code |-> picks[i].ts_code, final_score |-> picks[i].final_score,
         rank |-> picks[i].rank,
         alpha_ds |-> 0, alpha_qw |-> 0, risk_prob_ds |-> rp,
         risk_prob_qw |-> rp, risk_sev_ds |-> 2, risk_sev_qw |-> 2,
         alpha_final |-> 0, risk_prob_final |-> 0, risk_sev_final |-> 0,
         action |-> Null, final_score_ai |-> 0, rank_ai |-> 0]]

\* alpha_final is kept doubled: the median of two values is their mean.
Finals(row) ==
  [row EXCEPT !.alpha_final = _clamp(row.alpha_ds + row.alpha_qw, -6, 6),
              !.risk_prob_final = _clamp(Max(row.risk_prob_ds, row.risk_prob_qw), 0, 100),
              !.risk_sev_final = Max(row.risk_sev_ds, row.risk_sev_qw),
              !.action = "OK"]

\* Lines 291-303 and 306-318: one provider's answer written into the row.
\* A call error or a response without JSON only changes the comment text,
\* which the rows here do not carry.
ApplyDs(row, o) ==
  IF o.kind \in {"timeout", "http_error", "bad_json"} THEN row
  ELSE [row EXCEPT !.alpha_ds = _clamp(o.alpha, -3, 3),
                   !.risk_prob_ds = _clamp(o.risk_prob, 0, 100),
                   !.risk_sev_ds = o.risk_sev]
ApplyQw(row, o) ==
  IF o.kind \in {"timeout", "http_error", "bad_json"} THEN row
  ELSE [row EXCEPT !.alpha_qw = _clamp(o.alpha, -3, 3),
                   !.risk_prob_qw = _clamp(o.risk_prob, 0, 100),
                   !.risk_sev_qw = o.risk_sev]

\* float(obj.get(...)) on a non-numeric string raises ValueError, on null
\* TypeError; neither is caught inside score().
Raised(o) == IF o.kind = "bad_value" THEN "ValueError"
             ELSE IF o.kind = "null_value" THEN "TypeError" ELSE Null

RECURSIVE FirstRaise(_, _)
FirstRaise(outs, n) ==
  IF n = 0 THEN Null
  ELSE LET before == FirstRaise(outs, n - 1) IN
       IF before # Null THEN before
       ELSE IF Raised(outs[n].ds) # Null THEN Raised(outs[n].ds)
       ELSE Raised(outs[n].qw)

\* DualHeadModelEngine.score: keys are the two API keys found in the
\* environment, n the number of items reached before the budget break,
\* outs the answers of the two providers for the items reached.
score(picks, enabled, keys, n, outs) ==
  LET base == Placeholders(picks) IN
  IF ~enabled
    THEN [raise |-> Null, finals |-> TRUE,
          rows |-> [i \in DOMAIN base |-> Finals(base[i])]]
  ELSE IF ~keys.ds \/ ~keys.qw
    THEN [raise |-> Null, finals |-> FALSE,
          rows |-> [i \in DOMAIN base |->
                      [base[i] EXCEPT !.action = "BLOCK"]]]
  ELSE IF FirstRaise(outs, n) # Null
    THEN [raise |-> FirstRaise(outs, n), finals |-> FALSE, rows |-> <<>>]
  ELSE [raise |-> Null, finals |-> TRUE,
        rows |-> [i \in DOMAIN base |->
                    Finals(IF i <= n THEN ApplyQw(ApplyDs(base[i], outs[i].ds), outs[i].qw)
                           ELSE base[i])]]

WorkItems(picks, max_items) == Max(1, Min(max_items, Len(picks)))

\* Lines 153-158: the call of score(); a TypeError is retried once without
\* the market context, any other exception fails the run.
ScoreStep(retry) ==
  \E keys \in [ds : BOOLEAN, qw : BOOLEAN] :
  \E n \in 0..WorkItems(loc.picks, loc.cfg.max_items) :
  \E outs \in [1..n -> [ds : OracleOutcomes, qw : OracleOutcomes]] :
    LET r == score(loc.picks, loc.cfg.model_enabled, keys, n, outs) IN
    IF r.raise = "TypeError" /\ ~retry
      THEN pc' = "n_score_retry" /\ loc' = loc
    ELSE IF r.raise # Null
      THEN Raise(r.raise)
    ELSE /\ loc' = [loc EXCEPT !.out = r.rows, !.finals = r.finals]
         /\ pc' = "n_save_model"

NightScore ==
  /\ pc = "n_score"
  /\ ScoreStep(FALSE)
  /\ UNCHANGED <<inputVars, fileVars, gateVars, dbVars, nextRun,
                 faults, inv, termVars>>

NightScoreRetry ==
  /\ pc = "n_score_retry"
  /\ ScoreStep(TRUE)
  /\ UNCHANGED <<inputVars, fileVars, gateVars, dbVars, nextRun,
                 faults, inv, termVars>>

\* Lines 171-184: final_score_ai, descending sort, rank_ai.
Rerank(rows) ==
  LET ai == [i \in DOMAIN rows |->
               [rows[i] EXCEPT !.final_score_ai =
                   rows[i].final_score
                   + (rerank_weight_alpha * rows[i].alpha_final) \div 2
                   - rerank_weight_risk * rows[i].risk_prob_final
                   - rerank_weight_sev * rows[i].risk_sev_final]]
      sorted == SortDesc(ai, "final_score_ai")
  IN  [i \in DOMAIN sorted |-> [sorted[i] EXCEPT !.rank_ai = i]]

ModelRow(r, d, h, run, t) ==
  [trade_date |-> d, ts_code |-> r.ts_code, config_hash |-> h,
   alpha_ds |-> r.alpha_ds, alpha_qw |-> r.alpha_qw,
   risk_prob_ds |-> r.risk_prob_ds, risk_prob_qw |-> r.risk_prob_qw,
   risk_sev_ds |-> r.risk_sev_ds, risk_sev_qw |-> r.risk_sev_qw,
   alpha_final |-> r.alpha_final, risk_prob_final |-> r.risk_prob_final,
   risk_sev_final |-> r.risk_sev_final, action |-> r.action,
   run_id |-> run, created_at |-> t]

PickRow(r, d, h, run, t) ==
  [trade_date |-> d, ts_code |-> r.ts_code, config_hash |-> h,
   final_score |-> r.final_score, rank |-> r.rank, rank_rule |-> r.rank,
   rank_final |-> r.rank_ai, final_score_ai |-> r.final_score_ai,
   rank_ai |-> r.rank_ai, run_id |-> run, created_at |-> t]

\* Lines 160-200: rerank and save model_scores_daily.  Without the
\* *_final columns (score() returned early) the column arithmetic raises.
NightSaveModel ==
  /\ pc = "n_save_model"
  /\ IF ~loc.finals
       THEN Raise("AttributeError") /\ UNCHANGED modelScores
       ELSE LET ranked == Rerank(loc.out) IN
            /\ loc' = [loc EXCEPT !.out = ranked]
            /\ modelScores' = upsert_df(modelScores,
                 {ModelRow(ranked[i], loc.date, loc.cfg, loc.run, now_cn(loc.run)) : i \in DOMAIN ranked},
                 PickKey)
            /\ pc' = "n_save_picks"
  /\ UNCHANGED <<inputVars, fileVars, gateVars, execLog, phase, picksDaily,
                 ordersDaily, nextRun, faults, inv, termVars>>

\* Lines 202-254: save picks_daily.
NightSavePicks ==
  /\ pc = "n_save_picks"
  /\ picksDaily' = upsert_df(picksDaily,
       {PickRow(loc.out[i], loc.date, loc.cfg, loc.run, now_cn(loc.run)) : i \in DOMAIN loc.out},
       PickKey)
  /\ pc' = "n_factpack"
  /\ UNCHANGED <<inputVars, fileVars, gateVars, execLog, phase, modelScores,
                 ordersDaily, nextRun, faults, loc, inv, termVars>>

\* Lines 256-278: picks CSV (errors swallowed) and build_factpack.
NightFactpack ==
  /\ pc = "n_factpack"
  /\ pc' = "status_ok"
  /\ UNCHANGED <<inputVars, fileVars, gateVars, dbVars, nextRun,
                 faults, loc, inv, termVars>>

\* ------------------------------------------------------------- morning job
\* strength_gate: new positions are allowed when the best-ranked pick's
\* final_score reaches the minimum.
strength_gate(picks_n, min_final_score) ==
  IF picks_n = <<>> THEN TRUE
  ELSE LET top == CHOOSE i \in DOMAIN picks_n :
                    \A j \in DOMAIN picks_n : picks_n[i].rank_final <= picks_n[j].rank_final
       IN  ~(picks_n[top].final_score < min_final_score)

OrderRow(r) == [ts_code |-> r.ts_code, side |-> "BUY", qty |-> 100, notional |-> 0]

\* Lines 98-157: picks of the date (this configuration first, any
\* configuration as the fallback), head(top_n), strength gate, orders.
MorningPicks ==
  /\ pc = "m_picks"
  /\ LET own == {r \in picksDaily : r.trade_date = loc.date /\ r.config_hash = loc.cfg}
         any == {r \in picksDaily : r.trade_date = loc.date}
         sel == IF own # {} THEN own ELSE any
     IN  IF sel = {} THEN Raise("No picks found")
         ELSE \E picks \in OrderedBy(sel, "rank_final") :
              LET picks_n == Head_n(picks, loc.cfg.top_n)
                  allow_new == strength_gate(picks_n, strength_gate_min_final_score)
              IN  /\ loc' = [loc EXCEPT !.picks = picks_n,
                                        !.orders = IF allow_new
                                                   THEN [i \in DOMAIN picks_n |-> OrderRow(picks_n[i])]
                                                   ELSE <<>>]
                  /\ pc' = "m_kill"
  /\ UNCHANGED <<inputVars, fileVars, gateVars, dbVars, nextRun,
                 faults, inv, termVars>>

\* A gate that reports ok whatever it finds.
kill_switch_open(stop) == TRUE

\* bridge/gates.py kill_switch: not ok exactly when the STOP file exists.
kill_switch(stop) == ~stop

\* History: what os.path.exists(stop_file) returned at the gate.
Seen(stop) == IF stop THEN "present" ELSE "absent"

\* Lines 160-162.
KillSwitchGate ==
  /\ pc = "m_kill"
  /\ IF kill_switch(stopFile)
       THEN pc' = "m_fat" /\ loc' = [loc EXCEPT !.stop_seen = Seen(stopFile)]
       ELSE pc' = "handler" /\ loc' = [loc EXCEPT !.err = "KILL_SWITCH",
                                                  !.stop_seen = Seen(stopFile)]
  /\ UNCHANGED <<inputVars, fileVars, gateVars, dbVars, nextRun,
                 faults, inv, termVars>>

max_notional_per_order == 500000

RECURSIVE MaxNotional(_)
MaxNotional(orders) ==
  IF orders = <<>> THEN 0 ELSE Max(Head(orders).notional, MaxNotional(Tail(orders)))

\* The line limit compared one too high.
fat_finger_check_lax(orders, max_lines, max_notional) ==
  IF Len(orders) = 0 THEN "OK"
  ELSE IF Len(orders) > max_lines + 1 THEN "TOO_MANY_LINES"
  ELSE IF MaxNotional(orders) > max_notional THEN "ORDER_TOO_LARGE"
  ELSE "OK"

\* bridge/gates.py fat_finger_check.
fat_finger_check(orders, max_lines, max_notional) ==
  IF Len(orders) = 0 THEN "OK"
  ELSE IF Len(orders) > max_lines THEN "TOO_MANY_LINES"
  ELSE IF MaxNotional(orders) > max_notional THEN "ORDER_TOO_LARGE"
  ELSE "OK"

\* Lines 164-171.
FatFingerGate ==
  /\ pc = "m_fat"
  /\ IF fat_finger_check(loc.orders, loc.cfg.max_lines, max_notional_per_order) = "OK"
       THEN pc' = "m_open" /\ loc' = loc
       ELSE Raise("FAT_FINGER")
  /\ UNCHANGED <<inputVars, fileVars, gateVars, dbVars, nextRun,
                 faults, inv, termVars>>

\* to_csv straight into the published path.
tmp_path_in_place == "out"

\* atomic_write_csv: the path to_csv writes to, "tmp" for orders.csv.tmp,
\* "out" for orders.csv itself.
tmp_path == "tmp"

PathFile(path) == IF path = "tmp" THEN tmpCsv ELSE ordersCsv
SetPath(path, f) ==
  IF path = "tmp" THEN tmpCsv' = f /\ ordersCsv' = ordersCsv
                  ELSE ordersCsv' = f /\ tmpCsv' = tmpCsv

\* to_csv opening the file for writing (creates or truncates it).
ExportOpen ==
  /\ pc = "m_open"
  /\ SetPath(tmp_path, File(loc.run, <<>>, Content(loc.orders)))
  /\ pc' = "m_write"
  /\ UNCHANGED <<inputVars, stopFile, processed, gateVars, dbVars,
                 nextRun, faults, loc, inv, termVars>>

\* to_csv writing the next line of the batch.
ExportWrite ==
  /\ pc = "m_write"
  /\ LET f == PathFile(tmp_path) IN
     /\ Len(f.lines) < Len(f.batch)
     /\ SetPath(tmp_path, [f EXCEPT !.lines = Append(@, f.batch[Len(f.lines) + 1])])
     /\ pc' = IF Len(f.lines) + 1 = Len(f.batch) THEN "m_rename" ELSE "m_write"
  /\ UNCHANGED <<inputVars, stopFile, processed, gateVars, dbVars,
                 nextRun, faults, loc, inv, termVars>>

\* tmp.replace(out): the rename that publishes the batch.
ExportRename ==
  /\ pc = "m_rename"
  /\ IF tmp_path = "tmp"
       THEN ordersCsv' = tmpCsv /\ tmpCsv' = NoFile
       ELSE UNCHANGED <<ordersCsv, tmpCsv>>
  /\ pc' = "m_persist"
  /\ UNCHANGED <<inputVars, stopFile, processed, gateVars, dbVars,
                 nextRun, faults, loc, inv, termVars>>

OrderDbRow(o, d, h, run, t) ==
  [trade_date |-> d, ts_code |-> o.ts_code, side |-> o.side, qty |-> o.qty,
   status |-> "EXPORTED", config_hash |-> h, run_id |-> run, created_at |-> t]

\* Lines 175-188: last_orders_path, then orders_daily.
PersistOrders ==
  /\ pc = "m_persist"
  /\ ordersDaily' = upsert_df(ordersDaily,
       {OrderDbRow(loc.orders[i], loc.date, loc.cfg, loc.run, now_cn(loc.run)) : i \in DOMAIN loc.orders},
       OrderKey)
  /\ pc' = "status_ok"
  /\ UNCHANGED <<inputVars, fileVars, gateVars, execLog, phase, picksDaily,
                 modelScores, nextRun, faults, loc, inv, termVars>>

\* ------------------------------------------------- end of a run, both jobs
SetStatus(run, st, msg) ==
  [execLog EXCEPT ![run].status = st, ![run].error_msg = msg]

\* UPDATE execution_log SET status='OK' (night 280-284, morning 190-194).
StatusOk ==
  /\ pc = "status_ok"
  /\ execLog' = SetStatus(loc.run, "OK", execLog[loc.run].error_msg)
  /\ loc' = [loc EXCEPT !.hist = Append(@, "OK")]
  /\ pc' = "phase_idle"
  /\ UNCHANGED <<inputVars, fileVars, gateVars, phase, picksDaily, modelScores,
                 ordersDaily, nextRun, faults, inv, termVars>>

\* _set_state(phase, IDLE) and last_*_ok (night 285-286, morning 195-196).
PhaseIdle ==
  /\ pc = "phase_idle"
  /\ phase' = "IDLE"
  /\ pc' = "ret"
  /\ UNCHANGED <<inputVars, fileVars, gateVars, execLog, picksDaily, modelScores,
                 ordersDaily, nextRun, faults, loc, inv, termVars>>

\* except Exception (night 289-297, morning 200-208).
Handler ==
  /\ pc = "handler"
  /\ execLog' = SetStatus(loc.run, "FAILED", loc.err)
  /\ loc' = [loc EXCEPT !.hist = Append(@, "FAILED")]
  /\ phase' = "IDLE"
  /\ pc' = "ret"
  /\ UNCHANGED <<inputVars, fileVars, gateVars, picksDaily, modelScores,
                 ordersDaily, nextRun, faults, inv, termVars>>

\* main.py: exit code 0 when the job returned ok, else 2.
ExitCode(err) == IF err = Null THEN 0 ELSE 2

\* return {...}: the job function returns its result object.
Return ==
  /\ pc = "ret"
  /\ inv' = [inv EXCEPT !.code = ExitCode(loc.err), !.reason = loc.err]
  /\ pc' = "idle"
  /\ loc' = IdleLoc
  /\ UNCHANGED <<inputVars, fileVars, gateVars, dbVars, nextRun,
                 faults, termVars>>

\* --------------------------------------------------------------- failures
\* Statements of the try body that write the store or the outbox.
FaultSteps == {"n_bars", "n_save_model", "n_save_picks", "n_factpack",
               "m_picks", "m_write", "m_rename", "m_persist",
               "status_ok", "phase_idle"}

\* A storage / IO statement raises instead of taking effect.
StorageFault ==
  /\ pc \in FaultSteps
  /\ faults < MaxFaults
  /\ faults' = faults + 1
  /\ Raise("IO_ERROR")
  /\ UNCHANGED <<inputVars, fileVars, gateVars, dbVars, nextRun,
                 inv, termVars>>

\* A statement of the except block raises: at = 1 the UPDATE itself,
\* at = 2 the phase write after it.  The exception leaves the function.
HandlerRaises ==
  /\ pc = "handler"
  /\ faults < MaxFaults
  /\ faults' = faults + 1
  /\ \E at \in {1, 2} :
       execLog' = IF at = 1 THEN execLog ELSE SetStatus(loc.run, "FAILED", loc.err)
  /\ inv' = [inv EXCEPT !.code = 1, !.reason = "TRACEBACK"]
  /\ pc' = "idle"
  /\ loc' = IdleLoc
  /\ UNCHANGED <<inputVars, fileVars, gateVars, phase, picksDaily, modelScores,
                 ordersDaily, nextRun, termVars>>

\* The job process is killed.
Crash ==
  /\ pc \notin {"idle", "start"}
  /\ faults < MaxFaults
  /\ faults' = faults + 1
  /\ inv' = [inv EXCEPT !.code = 1, !.reason = "KILLED"]
  /\ pc' = "idle"
  /\ loc' = IdleLoc
  /\ UNCHANGED <<inputVars, fileVars, gateVars, dbVars, nextRun, termVars>>

\* Any other process creates or removes the STOP file.
ToggleStop ==
  /\ stopFile' = ~stopFile
  /\ UNCHANGED <<inputVars, tmpCsv, ordersCsv, processed, gateVars, dbVars,
                 coreVars, termVars>>

\* ------------------------------------------------- terminal (handle_data)
\* Line 138: a tick starts with the heartbeat.
Tick ==
  /\ tpc = "idle"
  /\ ticks < MaxTicks
  /\ ticks' = ticks + 1
  /\ heartbeat' = heartbeat + 1
  /\ tpc' = "t_stop"
  /\ UNCHANGED <<inputVars, fileVars, gateVars, dbVars, coreVars,
                 tloc, submitted, restarts, today>>

\* Lines 141-146: STOP present, the tick ends.
TermStop ==
  /\ tpc = "t_stop"
  /\ tpc' = IF stopFile THEN "idle" ELSE "t_exists"
  /\ UNCHANGED <<inputVars, fileVars, gateVars, dbVars, coreVars,
                 tloc, submitted, heartbeat, ticks, restarts, today>>

\* Lines 148-150.
TermExists ==
  /\ tpc = "t_exists"
  /\ tpc' = IF ordersCsv = NoFile THEN "idle" ELSE "t_read"
  /\ UNCHANGED <<inputVars, fileVars, gateVars, dbVars, coreVars,
                 tloc, submitted, heartbeat, ticks, restarts, today>>

\* orders[0].get("run_id") or "NA": the run_id column of the first row.
RunIdOf(orders) == "NA"

\* Lines 153-167: read the rows; an unreadable or empty file ends the tick;
\* otherwise the marker name is built from the wall-clock date and run_id.
TermRead ==
  /\ tpc = "t_read"
  /\ IF ordersCsv = NoFile \/ Len(ordersCsv.lines) <= 1
       THEN tpc' = "idle" /\ tloc' = IdleTerm
       ELSE /\ tloc' = [orders |-> Tail(ordersCsv.lines), src |-> ordersCsv.src,
                        idx |-> 1,
                        marker |-> [d |-> today, run_id |-> RunIdOf(Tail(ordersCsv.lines))]]
            /\ tpc' = "t_marker"
  /\ UNCHANGED <<inputVars, fileVars, gateVars, dbVars, coreVars,
                 submitted, heartbeat, ticks, restarts, today>>

\* Lines 170-171: the marker file exists, nothing is executed.
TermMarker ==
  /\ tpc = "t_marker"
  /\ IF \E m \in processed : m.name = tloc.marker
       THEN tpc' = "idle" /\ tloc' = IdleTerm
       ELSE tpc' = "t_exec" /\ tloc' = tloc
  /\ UNCHANGED <<inputVars, fileVars, gateVars, dbVars, coreVars,
                 submitted, heartbeat, ticks, restarts, today>>

\* _process_orders: one row per step; rows with qty <= 0 are skipped, an
\* exception of order_func is swallowed.
TermExec ==
  /\ tpc = "t_exec"
  /\ LET row == tloc.orders[tloc.idx] IN
     submitted' = IF row.qty <= 0 THEN submitted
                  ELSE Append(submitted, [src |-> tloc.src, ts_code |-> row.ts_code])
  /\ tloc' = [tloc EXCEPT !.idx = @ + 1]
  /\ tpc' = IF tloc.idx = Len(tloc.orders) THEN "t_rename" ELSE "t_exec"
  /\ UNCHANGED <<inputVars, fileVars, gateVars, dbVars, coreVars,
                 heartbeat, ticks, restarts, today>>

\* Lines 176-185: os.rename; when it raises, copy2 + remove; when that
\* raises too, nothing.  how: "rename" (rename or copy+remove succeeded),
\* "copied" (copy succeeded, remove raised), "none" (nothing succeeded).
RenameOutcomes == {"rename", "copied", "none"}

TermRename ==
  /\ tpc = "t_rename"
  /\ \E how \in RenameOutcomes :
       IF ordersCsv = NoFile \/ how = "none"
         THEN UNCHANGED <<ordersCsv, processed>>
         ELSE /\ processed' = processed \cup
                    {[name |-> tloc.marker, src |-> ordersCsv.src]}
              /\ ordersCsv' = IF how = "rename" THEN NoFile ELSE ordersCsv
  /\ tpc' = "idle"
  /\ tloc' = IdleTerm
  /\ UNCHANGED <<inputVars, stopFile, tmpCsv, gateVars, dbVars, coreVars,
                 submitted, heartbeat, ticks, restarts, today>>

\* The terminal process is restarted: initialize() runs again (line 128
\* writes a heartbeat), the tick in progress is lost.
TermRestart ==
  /\ restarts < MaxRestarts
  /\ restarts' = restarts + 1
  /\ heartbeat' = heartbeat + 1
  /\ tpc' = "idle"
  /\ tloc' = IdleTerm
  /\ UNCHANGED <<inputVars, fileVars, gateVars, dbVars, coreVars,
                 submitted, ticks, today>>

TermStep ==
  \/ Tick
  \/ TermStop
  \/ TermExists
  \/ TermRead
  \/ TermMarker
  \/ TermExec
  \/ TermRename

\* --------------------------------------------------------- trade calendar
lookback_days == 366
CalEntries == {"open", "closed", "none"}
NoCal == [d \in Dates |-> "none"]
\* The remote calendar fails, answers with no rows, or answers for the whole
\* span asked for.
RemoteOutcomes ==
  [err : {TRUE}, tab : {NoCal}]
  \cup [err : {FALSE}, tab : {NoCal} \cup [Dates -> {"open", "closed"}]]

SetMax(S) == CHOOSE x \in S : \A y \in S : y <= x

\* TradingCalendar._set_cache: drop entries older than lookback_days before
\* the latest cached date.
_set_cache(tab, lookback) ==
  LET present == {d \in DOMAIN tab : tab[d] # "none"} IN
  IF lookback > 0 /\ present # {}
    THEN [d \in DOMAIN tab |-> IF d >= SetMax(present) - lookback THEN tab[d] ELSE "none"]
    ELSE tab

\* TradingCalendar._ensure_cached: on a miss fetch, merge (fetched rows win),
\* trim and persist.
Empty(tab) == \A x \in DOMAIN tab : tab[x] = "none"

\* The test of line 181 answering "miss" for every date.
AlwaysMiss(cache, d) == TRUE
\* Line 181: the date is not in _cache_lookup.
CacheMiss(cache, d) == cache[d] = "none"

_ensure_cached(cache, d, remote, lookback) ==
  IF ~CacheMiss(cache, d) THEN cache
  ELSE IF remote.err \/ Empty(remote.tab) THEN cache
  ELSE _set_cache([x \in DOMAIN cache |->
                     IF remote.tab[x] # "none" THEN remote.tab[x] ELSE cache[x]],
                  lookback)

\* TradingCalendar.is_trade_day after _ensure_cached: the cached value, else
\* the weekday heuristic.
is_trade_day(cache, d) ==
  IF cache[d] # "none" THEN cache[d] = "open" ELSE Weekday(d) < 5

\* ------------------------------------------------------- reconcile gate
\* normalize_trade_date: an 8-digit date, with or without dashes, becomes
\* YYYY-MM-DD; anything else is returned unchanged.
normalize_trade_date(s) ==
  IF s.fmt \in {"iso", "compact"} THEN [day |-> s.day, fmt |-> "iso"] ELSE s

ReconFiles ==
  [kind : {"absent", "garbage", "non_object"}, td : {Missing}, ok : {"missing"}]
  \cup [kind : {"object"}, td : DateStrs \cup {Blank, Missing},
        ok : {"true", "false", "str_false"}]

\* bool(data.get("ok")): None and false are falsy, a non-empty string is truthy.
Truthy(ok) == ok \in {"true", "str_false"}

\* check_reconcile_status: "ok", "block" (returns ok=False) or "raise"
\* (data.get on JSON that is not an object).
check_reconcile_status(trade_date, f) ==
  IF f.kind \in {"absent", "garbage"} THEN "block"
  ELSE IF f.kind = "non_object" THEN "raise"
  ELSE LET target_td == normalize_trade_date(trade_date)
           stored_td_raw == IF f.td = Missing THEN Blank ELSE f.td
           stored_td == IF stored_td_raw = Blank THEN Blank
                        ELSE normalize_trade_date(stored_td_raw)
       IN  IF stored_td = Blank THEN "block"
           ELSE IF target_td # Blank /\ stored_td # Blank /\ stored_td # target_td THEN "block"
           ELSE IF ~Truthy(f.ok) THEN "block"
           ELSE "ok"

\* ------------------------------------------------------------ invocations
Jobs == {"NIGHT", "MORNING"}

Launch(job, d) ==
  /\ pc' = "start"
  /\ loc' = [IdleLoc EXCEPT !.job = job, !.date = d]

\* scripts/safe_run.py main: calendar gate, reconcile gate (morning only),
\* then the job as a subprocess.  avail: the TradingCalendar could be built
\* (otherwise the weekend guard decides, no trade_cal.csv being present);
\* remote: what the remote calendar source answers on a cache miss.
SafeRunInvoke ==
  /\ pc = "idle"
  /\ nextRun <= MaxRuns
  /\ \E job \in Jobs, raw \in DateStrs, avail \in BOOLEAN, remote \in RemoteOutcomes :
       LET trade_date == normalize_trade_date(raw)
           d == trade_date.day
           cache == IF avail THEN _ensure_cached(calCache, d, remote, lookback_days)
                    ELSE calCache
           open == IF avail THEN is_trade_day(cache, d) ELSE Weekday(d) < 5
           rec == IF job = "MORNING" THEN check_reconcile_status(trade_date, reconFile) ELSE "ok"
           base == [NoInv EXCEPT !.entry = "safe_run", !.job = job, !.date = d]
       IN  /\ calCache' = cache
           /\ IF ~open
                THEN /\ inv' = [base EXCEPT !.code = 2, !.reason = "NOT_TRADE_DAY"]
                     /\ UNCHANGED <<pc, loc>>
              ELSE IF rec = "block"
                THEN /\ inv' = [base EXCEPT !.code = 3,
                                            !.reason = "RECONCILE_STATUS_BLOCK"]
                     /\ UNCHANGED <<pc, loc>>
              ELSE IF rec = "raise"
                THEN /\ inv' = [base EXCEPT !.code = 1, !.reason = "TRACEBACK"]
                     /\ UNCHANGED <<pc, loc>>
              ELSE /\ inv' = [base EXCEPT !.launched = TRUE]
                   /\ Launch(job, d)
  /\ UNCHANGED <<inputVars, fileVars, reconFile, dbVars, nextRun,
                 faults, termVars>>

\* main.py main, one sub-command: the job is run directly.
MainCmd(job) ==
  /\ pc = "idle"
  /\ nextRun <= MaxRuns
  /\ \E d \in Dates :
       /\ inv' = [NoInv EXCEPT !.entry = "main", !.job = job, !.date = d,
                               !.launched = TRUE]
       /\ Launch(job, d)
  /\ UNCHANGED <<inputVars, fileVars, gateVars, dbVars, nextRun,
                 faults, termVars>>

MainInvoke == \E job \in Jobs : MainCmd(job)

\* The close job or an operator rewrites reconcile_status.json.
WriteRecon ==
  /\ pc = "idle"
  /\ \E f \in ReconFiles : reconFile' = f
  /\ UNCHANGED <<inputVars, fileVars, calCache, dbVars, coreVars, termVars>>

\* ------------------------------------------------------- specifications
NightStep ==
  \/ NightBars
  \/ NightScore
  \/ NightScoreRetry
  \/ NightSaveModel
  \/ NightSavePicks
  \/ NightFactpack

MorningStep ==
  \/ MorningPicks
  \/ KillSwitchGate
  \/ FatFingerGate
  \/ ExportOpen
  \/ ExportWrite
  \/ ExportRename
  \/ PersistOrders

TailStep ==
  \/ StartJob
  \/ StatusOk
  \/ PhaseIdle
  \/ Handler
  \/ Return

JobStep == NightStep \/ MorningStep \/ TailStep

\* Everything outside the store and the outbox before the first run.
Quiet ==
  /\ stopFile = FALSE
  /\ tmpCsv = NoFile
  /\ ordersCsv = NoFile
  /\ processed = {}
  /\ reconFile = ReconAbsent
  /\ calCache = NoCal
  /\ phase = "IDLE"
  /\ ordersDaily = {}
  /\ nextRun = 1
  /\ faults = 0
  /\ pc = "idle"
  /\ loc = IdleLoc
  /\ inv = NoInv
  /\ tpc = "idle"
  /\ tloc = IdleTerm
  /\ submitted = <<>>
  /\ heartbeat = 0
  /\ ticks = 0
  /\ restarts = 0
  /\ today = 5

Fresh == Quiet /\ EngineIdle

\* No job, gate or terminal is part of a call of an engine function.
Detached ==
  /\ Quiet
  /\ cfg = NoCfg
  /\ bars = [exists |-> FALSE, dates |-> {}, tab |-> EmptyTable]
  /\ execLog = <<>>
  /\ picksDaily = {}
  /\ modelScores = {}

\* A new installation: empty store.
Init ==
  /\ cfg \in Configs
  /\ bars \in BarsFiles
  /\ Fresh
  /\ execLog = <<>>
  /\ picksDaily = {}
  /\ modelScores = {}

\* The store as the night job of run 0 left it for trade date 5 (every
\* oracle call timed out): the morning job starts from here.
NightRows(c, b) ==
  LET picks == Head_n(rank_scores(b.tab), c.top_m)
      down == [kind |-> "timeout", alpha |-> 0, risk_prob |-> 0, risk_sev |-> 0]
      n == WorkItems(picks, c.max_items)
  IN  Rerank(score(picks, c.model_enabled, [ds |-> TRUE, qw |-> TRUE], n,
                   [i \in 1..n |-> [ds |-> down, qw |-> down]]).rows)

AfterNight ==
  /\ Fresh
  /\ execLog = (0 :> [job |-> "NIGHT", trade_date |-> 5,
                      status |-> "OK", error_msg |-> Null])
  /\ picksDaily = {PickRow(NightRows(cfg, bars)[i], 5, cfg, 0, now_cn(0)) :
                     i \in DOMAIN NightRows(cfg, bars)}
  /\ modelScores = {ModelRow(NightRows(cfg, bars)[i], 5, cfg, 0, now_cn(0)) :
                      i \in DOMAIN NightRows(cfg, bars)}

InitPicks ==
  /\ cfg \in {c \in Configs : ~c.model_enabled}
  /\ bars \in {b \in BarsFiles : 5 \in b.dates}
  /\ AfterNight

\* The same with the model enabled or not, for the gates in front.
InitGate ==
  /\ cfg \in {c \in Configs : c.max_lines = c.top_n}
  /\ bars \in {b \in BarsFiles : 5 \in b.dates /\ b.tab.vol["A"] > 0}
  /\ AfterNight

\* The jobs run from main.py, with storage faults, kills of the job process
\* and a STOP file that comes and goes.
Next ==
  \/ MainInvoke
  \/ JobStep
  \/ StorageFault
  \/ HandlerRaises
  \/ Crash
  \/ ToggleStop

Spec == Init /\ [][Next]_vars

\* The morning job alone, over the picks of an earlier night.
NextOutbox ==
  \/ MainCmd("MORNING")
  \/ MorningStep
  \/ TailStep
  \/ StorageFault
  \/ HandlerRaises
  \/ Crash
  \/ ToggleStop

SpecOutbox == InitPicks /\ [][NextOutbox]_vars

\* The night job alone, run and rerun.
NextNight ==
  \/ MainCmd("NIGHT")
  \/ NightStep
  \/ TailStep
  \/ StorageFault
  \/ HandlerRaises
  \/ Crash

SpecNight == Init /\ [][NextNight]_vars

\* The command-line entry points with their gates in front of the jobs.
NextGate ==
  \/ SafeRunInvoke
  \/ MainInvoke
  \/ WriteRecon
  \/ JobStep

SpecGate == InitGate /\ [][NextGate]_vars

\* The morning job publishing, the terminal consuming.
NextTerm ==
  \/ MainCmd("MORNING")
  \/ MorningStep
  \/ TailStep
  \/ TermStep
  \/ TermRestart
  \/ ToggleStop

SpecTerm == InitPicks /\ [][NextTerm]_vars

\* ------------------------------------------------------------ properties
InMorning == pc \notin {"idle", "start"} /\ loc.job = "MORNING"
InNight == pc \notin {"idle", "start"} /\ loc.job = "NIGHT"
ExportSteps == {"m_open", "m_write", "m_rename", "m_persist"}

\* The run has left nothing in the outbox or in orders_daily.
NothingExported(run) ==
  /\ ordersCsv.src # run
  /\ tmpCsv.src # run
  /\ \A r \in ordersDaily : r.run_id # run

\* C1 as stated: the morning job never publishes orders.csv (the rename into
\* place) at a moment when the STOP file exists.
C1_NeverPublishesUnderStop ==
  [][(pc = "m_rename" /\ pc' = "m_persist") => ~stopFile]_vars

\* C1 amended: only a run whose kill-switch gate saw no STOP file exports;
\* a run whose gate saw STOP is on the failure path with KILL_SWITCH, has
\* written nothing to the outbox or orders_daily, and returns with its
\* execution_log row FAILED and the KILL_SWITCH message.
C1_GateBlocksExport ==
  InMorning =>
    /\ (pc \in ExportSteps \/ ~NothingExported(loc.run)) => loc.stop_seen = "absent"
    /\ loc.stop_seen = "present" =>
          /\ pc \in {"handler", "ret"}
          /\ loc.err = "KILL_SWITCH"
          /\ NothingExported(loc.run)
          /\ pc = "ret" => /\ execLog[loc.run].status = "FAILED"
                           /\ execLog[loc.run].error_msg = "KILL_SWITCH"

\* C1 witness: a run blocked at the gate has returned FAILED while the batch
\* an earlier run published is still in the outbox.
C1_Witness ==
  /\ InMorning /\ pc = "ret"
  /\ loc.stop_seen = "present"
  /\ execLog[loc.run].status = "FAILED"
  /\ ordersCsv # NoFile /\ ordersCsv.src # loc.run

\* The claim's own notion of a rejected batch: more lines than allowed.
TooManyLines(orders, max_lines) == Len(orders) > 0 /\ Len(orders) > max_lines

\* C2: a batch the fat-finger check rejects never reaches the export; the
\* run that raised FAT_FINGER has a rejected batch, has written no line of it
\* to orders.csv (or its temp file) and no orders_daily row, and returns with
\* its execution_log row FAILED and the FAT_FINGER message.
C2_RejectsWholeBatch ==
  InMorning =>
    /\ TooManyLines(loc.orders, loc.cfg.max_lines) =>
          /\ pc \notin ExportSteps \cup {"status_ok", "phase_idle"}
          /\ NothingExported(loc.run)
          /\ pc = "ret" => loc.err \in {"FAT_FINGER", "KILL_SWITCH"}
    /\ loc.err = "FAT_FINGER" =>
          /\ TooManyLines(loc.orders, loc.cfg.max_lines)
          /\ pc = "ret" => /\ execLog[loc.run].status = "FAILED"
                           /\ execLog[loc.run].error_msg = "FAT_FINGER"

\* C2 witness: a run with two orders against max_lines = 1 has returned.
C2_Witness ==
  /\ InMorning /\ pc = "ret"
  /\ loc.err = "FAT_FINGER"
  /\ Len(loc.orders) = 2
  /\ execLog[loc.run].status = "FAILED"

\* A file holds the complete content of the export that wrote it.
Complete(f) == f # NoFile /\ f.lines = f.batch

\* C3: at every moment orders.csv is absent or holds the complete content of
\* one export, and it changes only by the rename of a completely written
\* temp file (so it is the previous export until then, the new one after).
C3_NeverPartial ==
  /\ [](ordersCsv = NoFile \/ Complete(ordersCsv))
  /\ [][ordersCsv' # ordersCsv =>
          /\ pc = "m_rename"
          /\ Complete(tmpCsv) /\ tmpCsv.src = loc.run
          /\ ordersCsv' = tmpCsv]_vars

\* C3 witness: the job was killed in the middle of writing the temp file
\* while the complete batch of an earlier run is the published file.
C3_Witness ==
  /\ pc = "idle"
  /\ tmpCsv # NoFile /\ ~Complete(tmpCsv) /\ Len(tmpCsv.lines) > 0
  /\ Complete(ordersCsv) /\ Len(ordersCsv.lines) > 1
  /\ ordersCsv.src # tmpCsv.src

\* C4: no order of a published batch is submitted a second time, over any
\* sequence of ticks, restarts and rename outcomes.
C4_ExecutedOnce ==
  \A i, j \in DOMAIN submitted : i # j => submitted[i] # submitted[j]

\* C5: an invocation for a date the calendar classifies as not a trade day
\* launches no job (so no execution_log row, picks or export come of it) and
\* exits non-zero with reason NOT_TRADE_DAY.
C5_NotTradeDayRefused ==
  (inv.entry # Null /\ ~is_trade_day(calCache, inv.date)) =>
    /\ ~inv.launched
    /\ inv.code > 0
    /\ inv.reason = "NOT_TRADE_DAY"

\* The reconcile status file passes as the claim words it: an object whose
\* trade_date equals the requested date after normalization and whose ok is
\* true.
FileOk(f, d) ==
  /\ f.kind = "object"
  /\ f.td \in DateStrs
  /\ normalize_trade_date(f.td).day = d
  /\ f.ok = "true"

\* C6: a safe_run morning invocation that gets past the calendar gate launches
\* the job exactly when the reconcile status file passes; otherwise it exits
\* non-zero with reason RECONCILE_STATUS_BLOCK and launches nothing.
C6_ReconcileGate ==
  [][(pc = "idle" /\ inv' # inv /\ inv'.entry = "safe_run"
        /\ inv'.job = "MORNING" /\ inv'.reason # "NOT_TRADE_DAY") =>
       IF FileOk(reconFile, inv'.date)
         THEN inv'.launched
         ELSE /\ ~inv'.launched
              /\ inv'.code > 0
              /\ inv'.reason = "RECONCILE_STATUS_BLOCK"]_vars

\* C7: a run that returns with its execution_log row FAILED has left no
\* picks_daily or model_scores_daily row, no orders.csv and no orders_daily
\* row of its own.
C7_FailedAppliesNothing ==
  (pc = "ret" /\ execLog[loc.run].status = "FAILED") =>
    /\ \A r \in picksDaily \cup modelScores : r.run_id # loc.run
    /\ NothingExported(loc.run)

\* C8: when the job function returns, the run's execution_log row has gone
\* RUNNING -> OK or RUNNING -> FAILED in exactly one step, and phase is IDLE.
C8_LogStateMachine ==
  pc = "ret" =>
    /\ loc.hist \in {<<"RUNNING", "OK">>, <<"RUNNING", "FAILED">>}
    /\ execLog[loc.run].status = loc.hist[Len(loc.hist)]
    /\ phase = "IDLE"

\* One row per primary key.
UniqueKeys(table, pk) == \A r, q \in table : SameKey(r, q, pk) => r = q

\* A successful night run has returned, and when it started the store held
\* the rows of one earlier run for the same trade date and configuration.
Rerun ==
  /\ InNight /\ pc = "ret" /\ loc.err = Null
  /\ loc.before.picks # {} /\ loc.before.model # {}
  /\ \E r0 \in DOMAIN execLog :
       \A r \in loc.before.picks \cup loc.before.model : r.run_id = r0

Strip(rows) == {[r EXCEPT !.run_id = 0, !.created_at = 0] : r \in rows}

\* What the two oracles answered, as the rows record it.
OracleCols(rows) ==
  {[ts_code |-> r.ts_code, alpha_ds |-> r.alpha_ds, alpha_qw |-> r.alpha_qw,
    risk_prob_ds |-> r.risk_prob_ds, risk_prob_qw |-> r.risk_prob_qw,
    risk_sev_ds |-> r.risk_sev_ds, risk_sev_qw |-> r.risk_sev_qw] : r \in rows}

C10_OracleNeverFatal ==
  (InNight /\ pc = "ret" /\ loc.picks # <<>> /\ faults = 0) =>
    /\ execLog[loc.run].status = "OK"
    /\ \E r \in picksDaily : r.run_id = loc.run

\* ================================================ engine/dual_head_model.py
\* Units: alpha_score in whole points, risk_prob and confidence in percent.
\* A JSON field is <<>> when the key is absent or its value is not a number,
\* and <<v>> when it holds the number v.
_neutral == [alpha_score |-> 0, risk_prob |-> 0, risk_severity |-> 1, confidence |-> 0]

_safe_float(x, default) == IF x = <<>> THEN default ELSE x[1]

_safe_int(x, default) == IF x = <<>> THEN default ELSE x[1]

\* The elements a provider can put into its output list: something that is
\* not an object, an object with every key in range, an object with every
\* number out of range, and an object without the keys.
NotDict == [dict |-> FALSE, alpha_score |-> <<>>, risk_prob |-> <<>>,
            risk_severity |-> <<>>, confidence |-> <<>>]
Answers ==
  {NotDict,
   [dict |-> TRUE, alpha_score |-> <<2>>, risk_prob |-> <<40>>,
    risk_severity |-> <<3>>, confidence |-> <<80>>],
   [dict |-> TRUE, alpha_score |-> <<7>>, risk_prob |-> <<150>>,
    risk_severity |-> <<9>>, confidence |-> <<-5>>],
   [dict |-> TRUE, alpha_score |-> <<>>, risk_prob |-> <<>>,
    risk_severity |-> <<>>, confidence |-> <<>>]}

\* What the POST of one _provider_call brings back for a batch of n items:
\* an exception (timeout, connection error, error status, body that is not
\* JSON), a JSON value that is not a list, or a list of n or n - 1 elements.
Responses(n) ==
  [kind : {"raise", "not_list"}, items : {<<>>}]
  \cup [kind : {"list"}, items : [1..n -> Answers] \cup [1..(n - 1) -> Answers]]

\* Lines 113-124: defaults for absent keys, then the clamps.
Fixed(it) ==
  IF ~it.dict THEN _neutral
  ELSE [alpha_score |-> Max(-3, Min(3, _safe_float(it.alpha_score, 0))),
        risk_prob |-> Max(0, Min(100, _safe_float(it.risk_prob, 0))),
        risk_severity |-> Max(1, Min(5, _safe_int(it.risk_severity, 1))),
        confidence |-> Max(0, Min(100, _safe_float(it.confidence, 0)))]

\* What became of the element for one item: the call failed as a whole
\* ("failed"), the element was not an object ("not_dict"), or it was read.
Fate(it) == IF it.dict THEN "dict" ELSE "not_dict"

\* _provider_call: the outputs in item order and the degraded reason; fate
\* is history, one entry per item.
_provider_call(has_key, resp, n) ==
  IF ~has_key
  THEN [out |-> [k \in 1..n |-> _neutral], reason |-> "no_api_key_or_url",
        fate |-> [k \in 1..n |-> "failed"]]
  ELSE IF resp.kind = "raise"
  THEN [out |-> [k \in 1..n |-> _neutral], reason |-> "http_error",
        fate |-> [k \in 1..n |-> "failed"]]
  ELSE IF resp.kind = "not_list" \/ Len(resp.items) # n
  THEN [out |-> [k \in 1..n |-> _neutral], reason |-> "bad_response_shape",
        fate |-> [k \in 1..n |-> "failed"]]
  ELSE [out |-> [k \in 1..n |-> Fixed(resp.items[k])], reason |-> "",
        fate |-> [k \in 1..n |-> Fate(resp.items[k])]]

\* _disagreement, in 1/6000.
_disagreement(a1, a2) ==
  LET da == Max(a1.alpha_score - a2.alpha_score, a2.alpha_score - a1.alpha_score)
      dp == Max(a1.risk_prob - a2.risk_prob, a2.risk_prob - a1.risk_prob)
      dsv == Max(a1.risk_severity - a2.risk_severity,
                 a2.risk_severity - a1.risk_severity)
  IN  Max(0, Min(6000, 500 * da + 18 * dp + 300 * dsv))

\* Lines 181-189; the two medians are kept doubled.
Ensemble(a, b) ==
  [alpha_score2 |-> a.alpha_score + b.alpha_score,
   risk_prob |-> Max(a.risk_prob, b.risk_prob),
   risk_severity |-> Max(a.risk_severity, b.risk_severity),
   confidence2 |-> a.confidence + b.confidence,
   disagreement |-> _disagreement(a, b)]

\* The configurations and candidate counts of a call of score.
DualCalls ==
  [enabled : BOOLEAN, n : 0..2, batch_size : {1, 2},
   keys : [ds : BOOLEAN, qw : BOOLEAN]]

DualStart(c) ==
  [pc |-> "start", enabled |-> c.enabled, n |-> c.n, batch_size |-> c.batch_size,
   keys |-> c.keys, i |-> 0, out_ds |-> <<>>, out_qw |-> <<>>,
   fate_ds |-> <<>>, fate_qw |-> <<>>, why_ds |-> <<>>, why_qw |-> <<>>,
   degraded_any |-> FALSE, ens |-> <<>>, degraded |-> FALSE]

\* score, lines 136-157: disabled or no candidates returns at once.
ScoreEnter ==
  /\ dual.pc = "start"
  /\ dual' = IF ~dual.enabled \/ dual.n = 0
             THEN [dual EXCEPT !.pc = "done", !.degraded = TRUE]
             ELSE [dual EXCEPT !.pc = "loop"]
  /\ UNCHANGED <<cfg, bars, compose, recon, book, cal, finger>>
  /\ UNCHANGED <<fileVars, gateVars, dbVars, coreVars, termVars>>

\* Lines 160-162: the time budget is used up before the next batch.
ScoreBudget ==
  /\ dual.pc = "loop"
  /\ dual.i < dual.n
  /\ dual' = [dual EXCEPT !.pc = "pad", !.degraded_any = TRUE]
  /\ UNCHANGED <<cfg, bars, compose, recon, book, cal, finger>>
  /\ UNCHANGED <<fileVars, gateVars, dbVars, coreVars, termVars>>

\* Lines 163-171: one batch, both providers.
ScoreBatch ==
  /\ dual.pc = "loop"
  /\ dual.i < dual.n
  /\ LET m == Min(dual.batch_size, dual.n - dual.i) IN
     \E rd \in Responses(m), rq \in Responses(m) :
       LET ds == _provider_call(dual.keys.ds, rd, m)
           qw == _provider_call(dual.keys.qw, rq, m)
       IN  dual' = [dual EXCEPT
                      !.i = dual.i + dual.batch_size,
                      !.degraded_any = @ \/ ds.reason # "" \/ qw.reason # "",
                      !.out_ds = @ \o ds.out,
                      !.out_qw = @ \o qw.out,
                      !.fate_ds = @ \o ds.fate,
                      !.fate_qw = @ \o qw.fate,
                      !.why_ds = @ \o [k \in 1..m |-> ds.reason],
                      !.why_qw = @ \o [k \in 1..m |-> qw.reason]]
  /\ UNCHANGED <<cfg, bars, compose, recon, book, cal, finger>>
  /\ UNCHANGED <<fileVars, gateVars, dbVars, coreVars, termVars>>

\* The outputs left as the loop produced them.
NoPad(s, n, x) == s
\* Lines 159, 173-177: the loop is over; pad what the budget cut off.
Pad(s, n, x) == s \o [k \in 1..(n - Len(s)) |-> x]

ScorePad ==
  /\ \/ dual.pc = "pad"
     \/ dual.pc = "loop" /\ dual.i >= dual.n
  /\ dual' = [dual EXCEPT
                !.pc = "ens",
                !.out_ds = Pad(@, dual.n, _neutral),
                !.out_qw = Pad(@, dual.n, _neutral),
                !.fate_ds = Pad(@, dual.n, "skipped"),
                !.fate_qw = Pad(@, dual.n, "skipped"),
                !.why_ds = Pad(@, dual.n, ""),
                !.why_qw = Pad(@, dual.n, "")]
  /\ UNCHANGED <<cfg, bars, compose, recon, book, cal, finger>>
  /\ UNCHANGED <<fileVars, gateVars, dbVars, coreVars, termVars>>

\* Lines 179-197: the ensemble over zip(out_ds, out_qw) and the result.
ScoreReturn ==
  /\ dual.pc = "ens"
  /\ dual' = [dual EXCEPT
                !.pc = "done",
                !.ens = [k \in 1..Min(Len(dual.out_ds), Len(dual.out_qw)) |->
                           Ensemble(dual.out_ds[k], dual.out_qw[k])],
                !.degraded = dual.degraded_any]
  /\ UNCHANGED <<cfg, bars, compose, recon, book, cal, finger>>
  /\ UNCHANGED <<fileVars, gateVars, dbVars, coreVars, termVars>>

InitDual ==
  /\ Detached
  /\ dual \in {DualStart(c) : c \in DualCalls}
  /\ compose = Unused /\ recon = Unused /\ book = Unused /\ cal = Unused
  /\ finger = Unused

NextDual == ScoreEnter \/ ScoreBudget \/ ScoreBatch \/ ScorePad \/ ScoreReturn

SpecDual == InitDual /\ [][NextDual]_vars

\* C11: for every instrument whose oracle output is malformed, missing or
\* failed (the call failed as a whole, or the element for the instrument is
\* not an object), the recorded output is the neutral default and the call
\* reported a non-empty degraded reason and the run is marked degraded.
Unusable == {"failed", "not_dict"}

C11_NeutralAndDegraded ==
  (dual.pc = "done" /\ dual.enabled /\ dual.n > 0) =>
    \A k \in 1..dual.n :
      /\ dual.fate_ds[k] \in Unusable =>
           dual.out_ds[k] = _neutral /\ dual.why_ds[k] # "" /\ dual.degraded
      /\ dual.fate_qw[k] \in Unusable =>
           dual.out_qw[k] = _neutral /\ dual.why_qw[k] # "" /\ dual.degraded

\* ------------------------------------------------------------------- C12
\* The veto condition on the fused outputs (score_composer.py:95, defaults
\* of lines 92-93): severity at least 3 and probability above 0.30.
Vetoable(r) == r.risk_sev_final >= 3 /\ r.risk_prob_final > 30

\* C12: every candidate whose fused risk severity is at least 3 and whose
\* fused risk probability exceeds 0.30 is tagged VETO in model_scores_daily
\* and has a final rank after every candidate of the same night that does
\* not meet the veto condition.
C12_VetoRankedLast ==
  \A r \in modelScores :
    Vetoable(r) =>
      /\ r.action = "VETO"
      /\ \A q \in modelScores, pr \in picksDaily, pq \in picksDaily :
           (/\ ~SameKey(q, r, PickKey) /\ q.trade_date = r.trade_date
            /\ q.run_id = r.run_id /\ ~Vetoable(q)
            /\ SameKey(pr, r, PickKey) /\ SameKey(pq, q, PickKey)
            /\ pr.run_id = r.run_id /\ pq.run_id = q.run_id)
           => pq.rank_final < pr.rank_final

\* ====================== engine/filters.py, filter_engine.py, score_composer.py
\* Units: scores in halves, risk_prob in percent, market cap in 1e10.
\* The part of a ts_code before the dot is a sequence of characters.
StartsWith(s, p) == Len(p) <= Len(s) /\ SubSeq(s, 1, Len(p)) = p

\* filter_engine._code_prefix: the first three characters.
_code_prefix(core) == SubSeq(core, 1, Min(3, Len(core)))

\* Rows of a snapshot: a main-board name, a name of an excluded board, a
\* Beijing name, and a main-board name with a large market cap.
SnapRow(core, suffix, mv, sr) ==
  [ts_code |-> [core |-> core, suffix |-> suffix], name_st |-> FALSE, close |-> 10,
   has_history |-> TRUE, total_mv |-> mv, score_rule |-> sr]
SnapRows ==
  {SnapRow(<<"6", "0", "0", "0">>, "SH", 3, 40),
   SnapRow(<<"3", "0", "0", "1">>, "SZ", 2, 60),
   SnapRow(<<"8", "3", "0", "1">>, "BJ", 1, 50),
   SnapRow(<<"6", "0", "1", "0">>, "SH", 8, 20)}

\* strategy.universe_policy: the default three-character prefixes, or a
\* shorter one; the market-cap ceiling is <<>> when not configured.
UniverseCfgs ==
  [exclude_prefixes : {{<<"3", "0", "0">>}, {<<"3", "0">>}},
   exclude_suffixes : {{"BJ"}}, exclude_st : {TRUE}, max_total_mv : {<<>>, <<5>>},
   mode : {"shadow", "rerank"}]

\* Ensemble rows handed to compose_scores by position.
EnsRows ==
  {[alpha_score |-> 0, risk_prob |-> 0, risk_severity |-> 1],
   [alpha_score |-> 2, risk_prob |-> 40, risk_severity |-> 3]}

\* Keep the elements of s that satisfy keep, in order.
RECURSIVE Where(_, _)
Where(s, keep) ==
  IF s = <<>> THEN <<>>
  ELSE (IF keep[1] THEN <<Head(s)>> ELSE <<>>)
       \o Where(Tail(s), [i \in 1..(Len(s) - 1) |-> keep[i + 1]])

\* filters.apply_universe_filters: rows that fail are dropped, the rest get
\* universe_flag 1.
apply_universe_filters(df, u) ==
  LET prefix_mask(r) == ~\E p \in u.exclude_prefixes : StartsWith(r.ts_code.core, p)
      bj_mask(r) == r.ts_code.suffix # "BJ"
      mv_mask(r) == u.max_total_mv = <<>> \/ r.total_mv <= u.max_total_mv[1]
      out == Where(df, [i \in DOMAIN df |->
                          prefix_mask(df[i]) /\ bj_mask(df[i]) /\ mv_mask(df[i])])
  IN  [i \in DOMAIN out |->
         [ts_code |-> out[i].ts_code, total_mv |-> out[i].total_mv,
          score_rule |-> out[i].score_rule, filter_flags |-> {}, universe_flag |-> 1]]

\* filter_engine.apply_hard_filters: every row is kept and flagged.
build_flags(row, u) ==
  (IF row.ts_code.suffix \in u.exclude_suffixes THEN {"EXCL_SUFFIX"} ELSE {})
  \cup (IF _code_prefix(row.ts_code.core) \in u.exclude_prefixes
        THEN {"EXCL_PREFIX"} ELSE {})
  \cup (IF u.exclude_st /\ row.name_st THEN {"EXCL_ST"} ELSE {})
  \cup (IF row.close <= 0 THEN {"BAD_PRICE"} ELSE {})
  \cup (IF ~row.has_history THEN {"NO_HISTORY"} ELSE {})

apply_hard_filters(df, u) ==
  [i \in DOMAIN df |->
     [ts_code |-> df[i].ts_code, total_mv |-> df[i].total_mv,
      score_rule |-> df[i].score_rule, filter_flags |-> build_flags(df[i], u),
      universe_flag |-> IF build_flags(df[i], u) = {} THEN 1 ELSE 0]]

\* -1e9, in halves.
Sentinel == -2000000000

\* Series.rank(ascending=False, method="first").
RankFirst(d, i) ==
  1 + Cardinality({j \in DOMAIN d : \/ d[j].final_score > d[i].final_score
                                    \/ d[j].final_score = d[i].final_score /\ j < i})

\* score_composer.compose_scores; model_ens = <<>> is the empty frame.
compose_scores(df, model_ens, mode) ==
  LET has == model_ens # <<>>
      ens(i) == IF has /\ i <= Len(model_ens) THEN model_ens[i]
                ELSE [alpha_score |-> 0, risk_prob |-> 0, risk_severity |-> 1]
      boosted(i) == IF has /\ mode = "rerank"
                    THEN df[i].score_rule + (5 * _clamp(ens(i).alpha_score, -3, 3)) \div 2
                    ELSE df[i].score_rule
      veto(i) == has /\ ens(i).risk_severity >= 3 /\ ens(i).risk_prob > 30
      gated(i) == IF ~has THEN boosted(i)
                  ELSE IF veto(i) THEN Sentinel
                  ELSE (boosted(i) * (200 - _clamp(ens(i).risk_prob, 0, 100))) \div 200
      action(i) == IF veto(i) THEN "VETO"
                   ELSE IF has /\ ens(i).risk_prob > 0 THEN "DOWNWEIGHT" ELSE "PASS"
      d == [i \in DOMAIN df |->
              [ts_code |-> df[i].ts_code, total_mv |-> df[i].total_mv,
               universe_flag |-> df[i].universe_flag,
               risk_gate_action |-> action(i),
               final_score |-> IF df[i].universe_flag # 1 THEN Sentinel ELSE gated(i)]]
  IN  [i \in DOMAIN d |->
         [ts_code |-> d[i].ts_code, total_mv |-> d[i].total_mv,
          universe_flag |-> d[i].universe_flag,
          risk_gate_action |-> d[i].risk_gate_action,
          final_score |-> d[i].final_score, rank_final |-> RankFirst(d, i)]]

\* A snapshot of two instruments, a policy, and the ensemble rows (or none).
ComposeInputs ==
  [snap : {s \in [1..2 -> SnapRows] : s[1] # s[2]}, u : UniverseCfgs,
   ens : {<<>>} \cup [1..2 -> EnsRows]]

ComposeStart(x) ==
  [pc |-> "snapshot", snap |-> x.snap, u |-> x.u, ens |-> x.ens,
   via |-> "none", rows |-> <<>>]

\* The night job's filter (night_job.py:94).
UniverseFilters ==
  /\ compose.pc = "snapshot"
  /\ compose' = [compose EXCEPT !.pc = "filtered", !.via = "filters",
                                !.rows = apply_universe_filters(compose.snap, compose.u)]
  /\ UNCHANGED <<cfg, bars, dual, recon, book, cal, finger>>
  /\ UNCHANGED <<fileVars, gateVars, dbVars, coreVars, termVars>>

HardFilters ==
  /\ compose.pc = "snapshot"
  /\ compose' = [compose EXCEPT !.pc = "filtered", !.via = "filter_engine",
                                !.rows = apply_hard_filters(compose.snap, compose.u)]
  /\ UNCHANGED <<cfg, bars, dual, recon, book, cal, finger>>
  /\ UNCHANGED <<fileVars, gateVars, dbVars, coreVars, termVars>>

\* The ensemble rows are aligned by position with the rows composed.
ComposeScores ==
  /\ compose.pc = "filtered"
  /\ compose.rows # <<>>
  /\ compose' = [compose EXCEPT
                   !.pc = "composed",
                   !.rows = compose_scores(compose.rows,
                                           Head_n(compose.ens, Len(compose.rows)),
                                           compose.u.mode)]
  /\ UNCHANGED <<cfg, bars, dual, recon, book, cal, finger>>
  /\ UNCHANGED <<fileVars, gateVars, dbVars, coreVars, termVars>>

InitCompose ==
  /\ Detached
  /\ compose \in {ComposeStart(x) : x \in ComposeInputs}
  /\ dual = Unused /\ recon = Unused /\ book = Unused /\ cal = Unused
  /\ finger = Unused

NextCompose == UniverseFilters \/ HardFilters \/ ComposeScores

SpecCompose == InitCompose /\ [][NextCompose]_vars

\* An instrument the universe policy excludes: its code starts with an
\* excluded prefix or ends with an excluded suffix, or its market cap is
\* over the ceiling.
Excluded(r, u) ==
  \/ \E p \in u.exclude_prefixes : StartsWith(r.ts_code.core, p)
  \/ r.ts_code.suffix \in u.exclude_suffixes
  \/ u.max_total_mv # <<>> /\ r.total_mv > u.max_total_mv[1]

\* C13: every composed row of an excluded instrument has universe_flag 0
\* and the sentinel minimum as final_score, and ranks below every row whose
\* universe_flag is 1.
C13_ExclusionTotal ==
  compose.pc = "composed" =>
    \A i \in DOMAIN compose.rows :
      Excluded(compose.rows[i], compose.u) =>
        /\ compose.rows[i].universe_flag = 0
        /\ compose.rows[i].final_score = Sentinel
        /\ \A j \in DOMAIN compose.rows :
             compose.rows[j].universe_flag = 1 =>
               compose.rows[j].rank_final < compose.rows[i].rank_final

\* ========================================================= engine/gates.py
\* Money is counted in millionths of a currency unit, ratios in percent.
\* An amount is <<>> when it is None or not finite, else <<v>>.
Money(units, millionths) == units * 1000000 + millionths

Abs(x) == IF x < 0 THEN -x ELSE x

\* math.isclose(a, b, rel_tol=1e-6, abs_tol=0.01):
\* |a - b| <= max(rel_tol * max(|a|, |b|), abs_tol).
isclose_money(a, b) ==
  Abs(a - b) <= Max(Max(Abs(a), Abs(b)) \div 1000000, Money(0, 10000))

\* |dev_ratio| <= max_dev for expected # 0, max_dev in percent.
WithinDev(expected, real, max_dev) ==
  Abs(real - expected) <= (max_dev * Abs(expected)) \div 100

\* asset_check: [ok, detail]; real is a finite number.
asset_check(expected, real, ac) ==
  IF ~ac.enabled THEN [ok |-> TRUE, detail |-> "DISABLED"]
  ELSE IF expected = <<>> THEN [ok |-> TRUE, detail |-> "NO_EXPECTED_ASSETS"]
  ELSE [ok |-> \/ (IF expected[1] = 0 THEN TRUE
                   ELSE WithinDev(expected[1], real, ac.max_total_asset_dev))
               \/ isclose_money(expected[1], real),
        detail |-> "expected, real, dev_ratio"]

\* The calls: the expected total is missing, zero or 100.0; the reported
\* total is 0, 100.0, or off by 0.000001, 0.01, 0.02, 6 or -6.
AssetInputs ==
  [ac : [enabled : BOOLEAN, max_total_asset_dev : {0, 5}],
   expected : {<<>>, <<0>>, <<Money(100, 0)>>},
   real : {0, Money(100, 0), Money(99, 999999), Money(100, 10000),
           Money(100, 20000), Money(94, 0), Money(106, 0), Money(1, 0),
           Money(0, 5000)}]

AssetCall(x) ==
  [pc |-> "call", ac |-> x.ac, expected |-> x.expected, real |-> x.real,
   ok |-> TRUE, detail |-> ""]

\* reconciliation.run_asset_check_and_log calls asset_check and logs it.
AssetCheck ==
  /\ recon.pc = "call"
  /\ LET res == asset_check(recon.expected, recon.real, recon.ac)
     IN  recon' = [recon EXCEPT !.pc = "logged", !.ok = res.ok, !.detail = res.detail]
  /\ UNCHANGED <<cfg, bars, dual, compose, book, cal, finger>>
  /\ UNCHANGED <<fileVars, gateVars, dbVars, coreVars, termVars>>

InitAsset ==
  /\ Detached
  /\ recon \in {AssetCall(x) : x \in AssetInputs}
  /\ dual = Unused /\ compose = Unused /\ book = Unused /\ cal = Unused
  /\ finger = Unused

NextAsset == AssetCheck

SpecAsset == InitAsset /\ [][NextAsset]_vars

\* |(real - expected) / expected| > max_total_asset_dev; with expected 0
\* the ratio of a non-zero difference is unbounded and exceeds every bound.
DevExceeds(expected, real, max_dev) ==
  IF expected = 0 THEN real # 0
  ELSE Abs(real - expected) > (max_dev * Abs(expected)) \div 100

\* C14: with the check enabled and an expected total given, asset_check
\* reports failure if and only if the deviation ratio exceeds
\* max_total_asset_dev and the two totals are not close under the money
\* comparator (relative 1e-6, absolute 0.01).
C14_FailsIffDeviates ==
  (recon.pc = "logged" /\ recon.ac.enabled /\ recon.expected # <<>>) =>
    (~recon.ok <=>
       /\ DevExceeds(recon.expected[1], recon.real, recon.ac.max_total_asset_dev)
       /\ ~isclose_money(recon.expected[1], recon.real))

\* ===================================================== engine/portfolio.py
\* Units: prices and values in whole currency units, weights in percent.
\* A price field is <<>> when it is NaN, else <<v>>.
BookCodes == <<"A", "B", "C">>

Chars(code) == <<code>>

\* The order id with the kind cut to three characters.
client_order_id_short(trade_date, run_id, tag, code) ==
  trade_date \o <<"_">> \o run_id \o <<"_">> \o Head_n(tag, 3) \o <<"_">> \o Chars(code)
\* The f-string of lines 137, 178 and 199, as a sequence of characters.
client_order_id(trade_date, run_id, tag, code) ==
  trade_date \o <<"_">> \o run_id \o <<"_">> \o tag \o <<"_">> \o Chars(code)

\* Rounding up to the next lot.
_round_lot_up(num, den, lot) ==
  IF num <= 0 THEN 0 ELSE ((num + den * lot - 1) \div (den * lot)) * lot
\* _round_lot(qty, lot) for qty = num / den, den > 0.
_round_lot(num, den, lot) ==
  IF num <= 0 THEN 0 ELSE (num \div (den * lot)) * lot

\* The retain list cut at top_buy.
top_buy_only(picks, buffer) == {picks[i] : i \in 1..Min(buffer.top_buy, Len(picks))}
\* Lines 64-74: the first codes of the ranking (picks sorted by rank_final).
retain_set(picks, buffer) == {picks[i] : i \in 1..Min(buffer.top_sell, Len(picks))}

buy_candidates(picks, buffer) == {picks[i] : i \in 1..Min(buffer.top_buy, Len(picks))}

get_price(px, code) ==
  IF ~px[code].present THEN <<>>
  ELSE IF px[code].ref_price # <<>> THEN px[code].ref_price
  ELSE px[code].last_price

\* No up-limit test.
always_buyable(px, code) == TRUE
buyable(px, code) ==
  \/ ~px[code].present
  \/ px[code].ref_price = <<>>
  \/ px[code].up_limit = <<>>
  \/ px[code].ref_price[1] < px[code].up_limit[1]

sellable(px, code) ==
  \/ ~px[code].present
  \/ px[code].ref_price = <<>>
  \/ px[code].down_limit = <<>>
  \/ px[code].ref_price[1] > px[code].down_limit[1]

\* Lines 129-144: the buffer-zone sells, over sorted(held).
ForcedSell(x, code) ==
  IF /\ x.positions[code].held
     /\ code \notin retain_set(x.picks, x.buffer)
     /\ sellable(x.px, code)
     /\ x.positions[code].amount > 0
  THEN <<[client_order_id |->
            client_order_id(x.trade_date, x.run_id, <<"S", "E", "L", "L">>, code),
          ts_code |-> code, side |-> "SELL", qty |-> x.positions[code].amount,
          price_type |-> "MKT", limit_price |-> <<>>,
          reason |-> "BUFFER_SELL_NOT_RETAIN"]>>
  ELSE <<>>

RECURSIVE ForcedSells(_, _)
ForcedSells(x, k) ==
  IF k > Len(BookCodes) THEN <<>>
  ELSE ForcedSell(x, BookCodes[k]) \o ForcedSells(x, k + 1)

\* Lines 150-206 for one target: the order, if any, and the cash it uses.
TargetOrder(x, t, cash_for_buys) ==
  LET code == t.ts_code
      p == get_price(x.px, code)
      held == x.positions[code].held
      desired_value == (t.target_weight * x.total_assets) \div 100
      cur_value == IF held THEN x.positions[code].market_value ELSE 0
      diff_value == desired_value - cur_value
      buy_value == Min(diff_value, cash_for_buys)
      buy_qty == _round_lot(buy_value, p[1], 100)
      amt == x.positions[code].amount
      sell_value == Min(-diff_value, amt * p[1])
      sell_qty == Min(_round_lot(sell_value, p[1], 100), amt)
      none == [orders |-> <<>>, spent |-> 0]
  IN  IF t.target_weight <= 0 THEN none
      ELSE IF code \notin buy_candidates(x.picks, x.buffer) /\ ~held THEN none
      ELSE IF p = <<>> THEN none
      ELSE IF p[1] <= 0 THEN none
      ELSE IF ~buyable(x.px, code) THEN none
      ELSE IF diff_value > x.min_order_value
      THEN IF buy_value < x.min_order_value \/ buy_qty <= 0 THEN none
           ELSE [orders |-> <<[client_order_id |->
                                 client_order_id(x.trade_date, x.run_id,
                                                 <<"B", "U", "Y">>, code),
                               ts_code |-> code, side |-> "BUY", qty |-> buy_qty,
                               price_type |-> "LIMIT", limit_price |-> p,
                               reason |-> "TARGET_BUY"]>>,
                 spent |-> buy_qty * p[1]]
      ELSE IF diff_value < -x.min_order_value /\ held
      THEN IF ~sellable(x.px, code) \/ sell_qty <= 0 THEN none
           ELSE [orders |-> <<[client_order_id |->
                                 client_order_id(x.trade_date, x.run_id,
                                                 <<"S", "E", "L", "L", "R">>, code),
                               ts_code |-> code, side |-> "SELL", qty |-> sell_qty,
                               price_type |-> "LIMIT", limit_price |-> p,
                               reason |-> "TARGET_SELL_REBAL"]>>,
                 spent |-> 0]
      ELSE none

RECURSIVE Rebalance(_, _, _)
Rebalance(x, k, cash_for_buys) ==
  IF k > Len(x.targets) THEN <<>>
  ELSE LET r == TargetOrder(x, x.targets[k], cash_for_buys)
       IN  r.orders \o Rebalance(x, k + 1, cash_for_buys - r.spent)

\* PortfolioManager.generate_orders.
generate_orders(x) == ForcedSells(x, 1) \o Rebalance(x, 1, x.cash_available)

\* The calls of generate_orders: a ranking of three instruments, holdings
\* of 600 shares worth 6000 (or an empty row), target weights, quotes with
\* limits 9 and 11, and the cash.
NotHeld == [held |-> FALSE, amount |-> 0, market_value |-> 0]
Holding(amount, market_value) ==
  [held |-> TRUE, amount |-> amount, market_value |-> market_value]
NoQuote == [present |-> FALSE, ref_price |-> <<>>, up_limit |-> <<>>,
            down_limit |-> <<>>, last_price |-> <<>>]
Quote(ref_price, last_price) ==
  [present |-> TRUE, ref_price |-> ref_price, up_limit |-> <<11>>,
   down_limit |-> <<9>>, last_price |-> last_price]

BookInputs ==
  {[trade_date |-> <<"5">>, run_id |-> <<"r", "1">>,
    buffer |-> [top_buy |-> 1, top_sell |-> 2], min_order_value |-> 2000,
    total_assets |-> 20000, picks |-> picks, cash_available |-> cash,
    positions |-> [A |-> pa, B |-> pb, C |-> NotHeld],
    targets |-> <<[ts_code |-> "A", target_weight |-> wa],
                  [ts_code |-> "B", target_weight |-> wb],
                  [ts_code |-> "C", target_weight |-> wc]>>,
    px |-> [A |-> qa, B |-> qb, C |-> qc]] :
     picks \in {<<"A", "B", "C">>, <<"C", "A", "B">>, <<"B", "C", "A">>},
     cash \in {3000, 12000},
     pa \in {NotHeld, Holding(600, 6000), Holding(0, 0)},
     pb \in {NotHeld, Holding(600, 6000)},
     wa \in {0, 10, 50}, wb \in {0, 10, 50}, wc \in {0, 50},
     qa \in {NoQuote, Quote(<<10>>, <<10>>), Quote(<<11>>, <<11>>),
             Quote(<<9>>, <<9>>), Quote(<<>>, <<11>>)},
     qb \in {Quote(<<10>>, <<10>>), Quote(<<9>>, <<9>>)},
     qc \in {Quote(<<10>>, <<10>>), Quote(<<11>>, <<11>>)}}

GenerateOrders ==
  /\ book.pc = "call"
  /\ book' = [book EXCEPT !.pc = "generated", !.orders = generate_orders(book.x)]
  /\ UNCHANGED <<cfg, bars, dual, compose, recon, cal, finger>>
  /\ UNCHANGED <<fileVars, gateVars, dbVars, coreVars, termVars>>

\* The same call made again, as a re-run of the same run id makes it.
Regenerate ==
  /\ book.pc = "generated"
  /\ book' = [book EXCEPT !.pc = "regenerated", !.again = generate_orders(book.x)]
  /\ UNCHANGED <<cfg, bars, dual, compose, recon, cal, finger>>
  /\ UNCHANGED <<fileVars, gateVars, dbVars, coreVars, termVars>>

InitBook ==
  /\ Detached
  /\ book \in {[pc |-> "call", x |-> x, orders |-> <<>>, again |-> <<>>] :
                 x \in BookInputs}
  /\ dual = Unused /\ compose = Unused /\ recon = Unused /\ cal = Unused
  /\ finger = Unused

NextBook == GenerateOrders \/ Regenerate

SpecBook == InitBook /\ [][NextBook]_vars

Generated == book.pc \in {"generated", "regenerated"}
Orders == {book.orders[i] : i \in DOMAIN book.orders}
RankOf(code) == CHOOSE i \in DOMAIN book.x.picks : book.x.picks[i] = code
Forced(code) ==
  \E o \in Orders : o.ts_code = code /\ o.reason = "BUFFER_SELL_NOT_RETAIN"

\* C15 as stated: a held instrument is force-sold exactly when its final
\* rank is outside the top top_sell, and a BUY for an instrument that is not
\* held is only issued when its rank is within the top top_buy.
C15_BufferZoneExactly ==
  Generated =>
    /\ \A code \in DOMAIN book.x.positions :
         book.x.positions[code].held =>
           (Forced(code) <=> RankOf(code) > book.x.buffer.top_sell)
    /\ \A o \in Orders :
         (o.side = "BUY" /\ ~book.x.positions[o.ts_code].held)
           => RankOf(o.ts_code) <= book.x.buffer.top_buy

\* C15 (amended): a held instrument is force-sold exactly when its final
\* rank is outside the top top_sell, its reference price is not at the
\* down-limit and its held amount is positive; the forced sell is for the
\* whole amount; a BUY for an instrument that is not held is only issued
\* when its rank is within the top top_buy.
C15_BufferZone ==
  Generated =>
    /\ \A code \in DOMAIN book.x.positions :
         book.x.positions[code].held =>
           (Forced(code) <=>
              /\ RankOf(code) > book.x.buffer.top_sell
              /\ sellable(book.x.px, code)
              /\ book.x.positions[code].amount > 0)
    /\ \A o \in Orders :
         o.reason = "BUFFER_SELL_NOT_RETAIN" =>
           o.side = "SELL" /\ o.qty = book.x.positions[o.ts_code].amount
    /\ \A o \in Orders :
         (o.side = "BUY" /\ ~book.x.positions[o.ts_code].held)
           => RankOf(o.ts_code) <= book.x.buffer.top_buy

\* A held instrument of rank 2 (inside top_sell, outside top_buy) is kept, a
\* held instrument of rank 3 is force-sold, and an instrument of rank 1 that
\* is not held is bought.
C15_Witness ==
  /\ Generated
  /\ \E c \in DOMAIN book.x.positions :
       book.x.positions[c].held /\ RankOf(c) = 2 /\ ~Forced(c)
  /\ \E c \in DOMAIN book.x.positions :
       book.x.positions[c].held /\ RankOf(c) = 3 /\ Forced(c)
  /\ \E o \in Orders :
       o.side = "BUY" /\ ~book.x.positions[o.ts_code].held /\ RankOf(o.ts_code) = 1

RECURSIVE BuyNotional(_)
BuyNotional(orders) ==
  IF orders = <<>> THEN 0
  ELSE (IF Head(orders).side = "BUY"
        THEN Head(orders).qty * Head(orders).limit_price[1] ELSE 0)
       + BuyNotional(Tail(orders))

\* C16: in every batch the sum over the BUY orders of quantity times limit
\* price does not exceed cash_available; what the SELL orders of the same
\* batch will bring in is not added to the cash for buys.
C16_BuysWithinCash ==
  Generated => BuyNotional(book.orders) <= book.x.cash_available

\* A batch with a SELL and with BUY orders that use the cash up entirely.
C16_Witness ==
  /\ Generated
  /\ \E o \in Orders : o.side = "SELL"
  /\ \E o \in Orders : o.side = "BUY"
  /\ BuyNotional(book.orders) = book.x.cash_available

\* C17: no BUY order is issued for an instrument whose reference price is
\* at (or above) its up-limit, and no SELL order, forced or rebalancing, for
\* an instrument whose reference price is at (or below) its down-limit.
AtUpLimit(q) ==
  q.present /\ q.ref_price # <<>> /\ q.up_limit # <<>> /\ q.ref_price[1] >= q.up_limit[1]
AtDownLimit(q) ==
  q.present /\ q.ref_price # <<>> /\ q.down_limit # <<>>
  /\ q.ref_price[1] <= q.down_limit[1]

C17_LimitsSuppress ==
  Generated =>
    \A o \in Orders :
      /\ o.side = "BUY" => ~AtUpLimit(book.x.px[o.ts_code])
      /\ o.side = "SELL" => ~AtDownLimit(book.x.px[o.ts_code])

\* An instrument at its up-limit that the targets would buy and one at its
\* down-limit that the buffer rule would sell, in a batch that has orders
\* for other instruments.
C17_Witness ==
  /\ Generated
  /\ Orders # {}
  /\ \E t \in {book.x.targets[i] : i \in DOMAIN book.x.targets} :
       /\ t.target_weight = 50 /\ RankOf(t.ts_code) = 1
       /\ ~book.x.positions[t.ts_code].held
       /\ AtUpLimit(book.x.px[t.ts_code])
  /\ \E c \in DOMAIN book.x.positions :
       /\ book.x.positions[c].held /\ book.x.positions[c].amount > 0
       /\ RankOf(c) = 3 /\ AtDownLimit(book.x.px[c])

RECURSIVE SellQty(_, _)
SellQty(orders, code) ==
  IF orders = <<>> THEN 0
  ELSE (IF Head(orders).side = "SELL" /\ Head(orders).ts_code = code
        THEN Head(orders).qty ELSE 0)
       + SellQty(Tail(orders), code)

\* C18: for every instrument the total quantity of the SELL orders of one
\* batch does not exceed the quantity held.
C18_SellsWithinHolding ==
  Generated =>
    \A code \in DOMAIN book.x.positions :
      SellQty(book.orders, code) <= book.x.positions[code].amount

Ids(orders) == [i \in DOMAIN orders |-> orders[i].client_order_id]
Distinct(s) == \A i, j \in DOMAIN s : i # j => s[i] # s[j]

KindTag(o) ==
  IF o.reason = "TARGET_BUY" THEN <<"B", "U", "Y">>
  ELSE IF o.reason = "BUFFER_SELL_NOT_RETAIN" THEN <<"S", "E", "L", "L">>
  ELSE <<"S", "E", "L", "L", "R">>

MarkerFor(file) == [d |-> loc.date, run_id |-> RunIdOf(Tail(file.lines))]

\* C20: the core never publishes an orders file into an outbox in which
\* the processed-marker for that trade date and run id already exists.
C20_NoExportOverMarker ==
  [][(pc = "m_rename" /\ pc' = "m_persist" /\ ordersCsv' # NoFile
      /\ ordersCsv' # ordersCsv /\ Len(ordersCsv'.lines) > 1)
     => ~\E m \in processed : m.name = MarkerFor(ordersCsv')]_vars

\* ================================================ core/trading_calendar.py
\* One cache file and the TradingCalendar instances built over it, one after
\* the other.  Days are day numbers; Weekday(6) is a Saturday.
MaxInstances == 2   \* TradingCalendar objects constructed in one behaviour
MaxLookups == 2     \* is_trade_day calls in one behaviour

CalDays == {3, 6, 12}
NoEntries == [d \in CalDays |-> "none"]
CalTables == [CalDays -> CalEntries]

\* _range_for: lookback_days before the target (no lower end when it is 0)
\* to seven days after it.
_range_for(d, lookback) ==
  {x \in CalDays : (lookback = 0 \/ x >= d - lookback) /\ x <= d + 7}

\* _fetch_remote: the source raises, or answers with rows of the range.
CalRemotes(d, lookback) ==
  [err : {TRUE}, tab : {NoEntries}]
  \cup [err : {FALSE},
        tab : {t \in CalTables : \A x \in CalDays : x \notin _range_for(d, lookback)
                                                      => t[x] = "none"}]

\* _load_cache with only the cache path holding rows (no manual seed file).
_load_cache(file, lookback) == IF Empty(file) THEN NoEntries ELSE _set_cache(file, lookback)

\* _persist_cache.  CSV: the file is rewritten with the frame.  SQLite: the
\* rows are inserted on a connection that is closed without a commit, which
\* discards them.
_persist_cache(file, df, kind) == IF kind = "sqlite" THEN file ELSE df

\* _save_cache: nothing is written for an empty frame.
_save_cache(file, df, kind) == IF Empty(df) THEN file ELSE _persist_cache(file, df, kind)

CalSetups ==
  [kind : {"csv", "sqlite"}, lookback_days : {0, 2, 5},
   file : {NoEntries,
           [d \in CalDays |-> IF d = 3 THEN "closed" ELSE "none"],
           [d \in CalDays |-> IF d = 12 THEN "open" ELSE "none"],
           [d \in CalDays |-> IF d = 6 THEN "open" ELSE "closed"]}]

NoLookup == [d |-> 0, cached |-> "none", called |-> FALSE, err |-> FALSE,
             answer |-> "none", result |-> FALSE, how |-> "none",
             file_before |-> NoEntries, seen_before |-> FALSE]

CalStart(x) ==
  [pc |-> "calendar", kind |-> x.kind, lookback_days |-> x.lookback_days,
   file |-> x.file, live |-> FALSE, mem |-> NoEntries, instances |-> 0,
   lookups |-> 0, calls |-> 0, fetched |-> {}, last |-> NoLookup]

\* TradingCalendar.__init__: a new instance loads the cache file.
CalNew ==
  /\ cal.pc = "calendar"
  /\ cal.instances < MaxInstances
  /\ cal' = [cal EXCEPT !.live = TRUE, !.instances = @ + 1,
                        !.mem = _load_cache(cal.file, cal.lookback_days),
                        !.last = NoLookup]
  /\ UNCHANGED <<cfg, bars, dual, compose, recon, book, finger>>
  /\ UNCHANGED <<fileVars, gateVars, dbVars, coreVars, termVars>>

\* TradingCalendar.is_trade_day on the live instance.  last and fetched are
\* history: what the lookup found and did, and the dates for which the
\* remote source has returned an entry so far.
CalLookup ==
  /\ cal.pc = "calendar"
  /\ cal.live
  /\ cal.lookups < MaxLookups
  /\ \E d \in CalDays :
       \E remote \in CalRemotes(d, cal.lookback_days) :
         LET miss == CacheMiss(cal.mem, d)
             mem == IF miss THEN _ensure_cached(cal.mem, d, remote, cal.lookback_days)
                    ELSE cal.mem
             saved == miss /\ ~remote.err /\ ~Empty(remote.tab)
         IN  cal' = [cal EXCEPT
                       !.lookups = @ + 1,
                       !.calls = IF miss THEN @ + 1 ELSE @,
                       !.mem = mem,
                       !.file = IF saved THEN _save_cache(@, mem, cal.kind) ELSE @,
                       !.fetched = IF saved
                                   THEN @ \cup {x \in CalDays : remote.tab[x] # "none"}
                                   ELSE @,
                       !.last = [d |-> d, cached |-> cal.mem[d], called |-> miss,
                                 err |-> miss /\ remote.err,
                                 answer |-> IF miss /\ ~remote.err THEN remote.tab[d]
                                            ELSE "none",
                                 result |-> is_trade_day(mem, d),
                                 how |-> IF mem[d] # "none" THEN "cache" ELSE "weekday",
                                 file_before |-> cal.file,
                                 seen_before |-> d \in cal.fetched]]
  /\ UNCHANGED <<cfg, bars, dual, compose, recon, book, finger>>
  /\ UNCHANGED <<fileVars, gateVars, dbVars, coreVars, termVars>>

InitCal ==
  /\ Detached
  /\ cal \in {CalStart(x) : x \in CalSetups}
  /\ dual = Unused /\ compose = Unused /\ recon = Unused /\ book = Unused
  /\ finger = Unused

NextCal == CalNew \/ CalLookup

SpecCal == InitCal /\ [][NextCal]_vars

Looked == cal.pc = "calendar" /\ cal.last.d # 0

\* C21: if the requested date is in the cache the instance loaded from the
\* persisted file, is_trade_day returns the cached is_open value, makes no
\* call to the remote source and leaves the persisted cache file unchanged.
C21_CachedNoRemote ==
  (Looked /\ cal.last.cached # "none") =>
    /\ cal.last.result = (cal.last.cached = "open")
    /\ ~cal.last.called
    /\ cal.file = cal.last.file_before

\* A lookup of a date that was in the cache as loaded from the file, before
\* any remote call of the behaviour, on a day whose weekday says otherwise.
C21_Witness ==
  /\ Looked
  /\ cal.calls = 0
  /\ cal.last.cached = "closed"
  /\ Weekday(cal.last.d) < 5
  /\ ~cal.last.result

\* The lookup missed the cache and the remote source returned an entry for
\* the requested date.
Fetched == Looked /\ cal.last.called /\ cal.last.answer # "none"

\* C22: on a cache miss for which the remote source returns data, the remote
\* is called once, the persisted cache then contains the fetched date, and a
\* later lookup of a date the remote has already returned, by this or by a
\* new instance, is answered without a remote call.
C22_FetchedIsPersisted ==
  /\ Fetched => cal.file[cal.last.d] # "none"
  /\ (Looked /\ cal.last.seen_before) => ~cal.last.called

\* C25: is_trade_day uses the weekday heuristic only when the date is in
\* neither cache and the remote failed or returned no entry for it; when the
\* remote returns an entry for the date, the result is that entry's is_open.
C25_RemoteEntryWins ==
  /\ (Looked /\ cal.last.how = "weekday") =>
        (cal.last.cached = "none" /\ cal.last.called /\ cal.last.answer = "none")
  /\ Fetched => cal.last.result = (cal.last.answer = "open")

\* ------------------------------------------------------- C23, C27, C28
\* Some row of the published file of run src has been submitted.
ExecutedFrom(src) == \E i \in DOMAIN submitted : submitted[i].src = src

\* C23: over every interleaving of the core publishing and the terminal
\* consuming, a batch whose file is renamed to the processed marker has
\* been executed, and no order of a batch is executed twice.
C23_PickedUpExecutedOnce ==
  /\ \A m \in processed : ExecutedFrom(m.src)
  /\ \A i, j \in DOMAIN submitted :
       (i # j /\ submitted[i].src = submitted[j].src)
         => submitted[i].ts_code # submitted[j].ts_code

\* C27: while the STOP file is present the terminal submits no order, and
\* every tick rewrites the heartbeat.
C27_StopHaltsSubmission ==
  [][/\ stopFile => submitted' = submitted
     /\ ticks' # ticks => heartbeat' # heartbeat]_vars

\* The wall clock of the terminal passes midnight.
NextDay ==
  /\ today + 1 \in Dates
  /\ today' = today + 1
  /\ UNCHANGED <<inputVars, fileVars, gateVars, dbVars, coreVars,
                 tpc, tloc, submitted, heartbeat, ticks, restarts>>

\* The morning job publishing and the terminal consuming, over two days.
NextDays ==
  \/ MainCmd("MORNING")
  \/ MorningStep
  \/ TailStep
  \/ TermStep
  \/ NextDay

SpecDays == InitPicks /\ [][NextDays]_vars

\* C28: after any sequence of morning runs and terminal ticks, the order of
\* an instrument for the trade date has been submitted at most once.
C28_RerunNotReexecuted ==
  \A i, j \in DOMAIN submitted :
    i # j => submitted[i].ts_code # submitted[j].ts_code

\* ==================================================== engine/gates.py
\* fat_finger_check(orders, cfg, total_assets) on the batch that
\* generate_orders returned.  Caps on fractions are in percent.
FingerLimits ==
  [max_orders : {1, 50}, max_order_value : {5000, 500000},
   max_pos : {20}, max_turnover : {60}]

\* Lines 29-30: v = qty * limit_price, with 0.0 for an order without a limit.
OrderValue(o) == IF o.limit_price # <<>> THEN o.qty * o.limit_price[1] ELSE 0

RECURSIVE BuyValue(_)
BuyValue(orders) ==
  IF orders = <<>> THEN 0
  ELSE (IF Head(orders).side = "BUY" THEN OrderValue(Head(orders)) ELSE 0)
       + BuyValue(Tail(orders))

\* Lines 31-36: the two per-order tests, made for BUY orders.
OrderTooLarge(o, lim) == o.side = "BUY" /\ OrderValue(o) > lim.max_order_value
PositionCap(o, lim, total_assets) ==
  o.side = "BUY" /\ total_assets > 0 /\ OrderValue(o) * 100 > lim.max_pos * total_assets

engine_fat_finger_check(orders, lim, total_assets) ==
  LET bad == {i \in DOMAIN orders : \/ OrderTooLarge(orders[i], lim)
                                     \/ PositionCap(orders[i], lim, total_assets)}
      first == CHOOSE i \in bad : \A j \in bad : i <= j
  IN  IF Len(orders) > lim.max_orders
        THEN [ok |-> FALSE, detail |-> "Too many orders"]
      ELSE IF bad # {}
        THEN [ok |-> FALSE,
              detail |-> IF OrderTooLarge(orders[first], lim)
                         THEN "Single order value too large"
                         ELSE "Single position cap exceeded"]
      ELSE IF total_assets > 0 /\ BuyValue(orders) * 100 > lim.max_turnover * total_assets
        THEN [ok |-> FALSE, detail |-> "Daily turnover cap exceeded"]
      ELSE [ok |-> TRUE, detail |-> "OK"]

FingerCheck ==
  /\ book.pc = "generated"
  /\ finger = Unused
  /\ \E lim \in FingerLimits :
       finger' = [pc |-> "checked", lim |-> lim,
                  res |-> engine_fat_finger_check(book.orders, lim, book.x.total_assets)]
  /\ UNCHANGED <<cfg, bars, dual, compose, recon, book, cal>>
  /\ UNCHANGED <<fileVars, gateVars, dbVars, coreVars, termVars>>

NextFinger == GenerateOrders \/ FingerCheck

SpecFinger == InitBook /\ [][NextFinger]_vars

\* What an order is worth: quantity times its limit price, or times the
\* price generate_orders used for the instrument when it has no limit.
Notional(o) ==
  IF o.limit_price # <<>> THEN o.qty * o.limit_price[1]
  ELSE IF get_price(book.x.px, o.ts_code) # <<>>
    THEN o.qty * get_price(book.x.px, o.ts_code)[1]
  ELSE 0

RECURSIVE Turnover(_)
Turnover(orders) ==
  IF orders = <<>> THEN 0
  ELSE (IF Head(orders).side = "BUY" THEN Notional(Head(orders)) ELSE 0)
       + Turnover(Tail(orders))

\* C24: fat_finger_check returns not-ok when the batch has more orders than
\* the maximum, or a single order (BUY or SELL, limit or market) is worth
\* more than the per-order cap or more than the per-position fraction of
\* total assets, or the BUY orders together exceed the turnover fraction.
C24_FatFingerRejects ==
  finger.pc = "checked" =>
    ((\/ Len(book.orders) > finger.lim.max_orders
      \/ \E o \in Orders : Notional(o) > finger.lim.max_order_value
      \/ \E o \in Orders :
           Notional(o) * 100 > finger.lim.max_pos * book.x.total_assets
      \/ Turnover(book.orders) * 100 > finger.lim.max_turnover * book.x.total_assets)
     => ~finger.res.ok)

C29_OneSidePerInstrument ==
  Generated =>
    ~\E o, q \in Orders : o.ts_code = q.ts_code /\ o.side = "BUY" /\ q.side = "SELL"

\* ------------------------------------------------------------------- C30
\* picks_daily and model_scores_daily rows of the night run under c.
PicksOf(c) ==
  {PickRow(NightRows(c, bars)[i], 5, c, 0, now_cn(0)) : i \in DOMAIN NightRows(c, bars)}
ModelOf(c) ==
  {ModelRow(NightRows(c, bars)[i], 5, c, 0, now_cn(0)) : i \in DOMAIN NightRows(c, bars)}

\* The store after night runs under two configurations (the configuration
\* file was edited between them), and the configuration of the morning.
InitStale ==
  /\ cfg \in {c \in Configs : ~c.model_enabled}
  /\ bars \in {b \in BarsFiles : 5 \in b.dates}
  /\ Fresh
  /\ execLog = (0 :> [job |-> "NIGHT", trade_date |-> 5,
                      status |-> "OK", error_msg |-> Null])
  /\ \E c1, c2 \in Configs :
       /\ picksDaily = PicksOf(c1) \cup PicksOf(c2)
       /\ modelScores = ModelOf(c1) \cup ModelOf(c2)

SpecStale == InitStale /\ [][NextOutbox]_vars

\* The morning job has just published its batch.
Published == pc = "m_persist" /\ ordersCsv.src = loc.run

\* C30: the published batch has at most one order per instrument and at
\* most top_n orders, made from picks of one configuration fingerprint.
C30_OneOrderPerInstrument ==
  Published =>
    /\ \A i, j \in DOMAIN loc.orders :
         i # j => loc.orders[i].ts_code # loc.orders[j].ts_code
    /\ Len(loc.orders) <= loc.cfg.top_n
    /\ loc.orders # <<>> =>
         \A i, j \in DOMAIN loc.picks :
           loc.picks[i].config_hash = loc.picks[j].config_hash

====
